---- MODULE Spec2Model ----
(***************************************************************************)
(* lazysshrs: the SSH configuration model (parser, include resolution,     *)
(* registry) and the mutation engine (append host block, registration,     *)
(* remove by name, update), together with the confirm handlers of the      *)
(* event loop that drive them.                                             *)
(*                                                                         *)
(* Text is modelled at the level of characters: a file's content, a line,  *)
(* a path and a form field are strings; Len, SubSeq and \o are the string  *)
(* operations.  An Option<T> is a sequence of length at most one: None is  *)
(* <<>> and Some(v) is <<v>>.  A HashMap is a function whose domain is its *)
(* key set.  The file system is a function from the paths of the existing  *)
(* regular files to their content.                                         *)
(***************************************************************************)
EXTENDS Integers, Sequences, FiniteSets, TLC

VARIABLES
    fs,                 \* the files on disk: path -> content
    workdir,            \* AppConfig.workdir
    hosts,              \* App.hosts (the registry held in memory)
    state,              \* App.state
    form,               \* App.form
    editing_host_index, \* App.editing_host_index
    selected,           \* App.list_state.selected()
    popup_message,      \* App.popup_message
    search_query,       \* App.search_query
    filtered_hosts,     \* App.filtered_hosts (indices into hosts, from 0)
    exit,               \* "running", or how run_app returned: "quit" / "error"
    ops                 \* history: the mutation-engine calls made so far, each
                        \* with its inputs, its outcome and the disk before/after

vars == <<fs, workdir, hosts, state, form, editing_host_index, selected,
          popup_message, search_query, filtered_hosts, exit, ops>>

None == <<>>
Some(v) == <<v>>
IsSome(o) == o # <<>>
UnwrapOr(o, d) == IF o = <<>> THEN d ELSE o[1]

Min(S) == CHOOSE m \in S : \A n \in S : m <= n
Max(S) == CHOOSE m \in S : \A n \in S : m >= n

(***************************************************************************)
(* Strings (Rust's str methods used by the program).                       *)
(***************************************************************************)
Ch(s, i) == SubSeq(s, i, i)

\* char::is_whitespace, on the characters that occur in the model.
IsWhitespace(c) == c \in {" ", "\t", "\n", "\r"}

\* str::trim
Trim(s) ==
    LET keep == {i \in 1..Len(s) : ~IsWhitespace(Ch(s, i))}
    IN  IF keep = {} THEN "" ELSE SubSeq(s, Min(keep), Max(keep))

\* str::starts_with
StartsWith(s, p) == Len(s) >= Len(p) /\ SubSeq(s, 1, Len(p)) = p

\* str::contains
Contains(s, p) == \E i \in 0..(Len(s) - Len(p)) : SubSeq(s, i + 1, i + Len(p)) = p

\* char::to_lowercase, on the ASCII letters.
LowerCh(c) ==
    CASE c = "H" -> "h" [] c = "O" -> "o" [] c = "S" -> "s" [] c = "T" -> "t"
      [] c = "N" -> "n" [] c = "A" -> "a" [] c = "M" -> "m" [] c = "E" -> "e"
      [] c = "U" -> "u" [] c = "R" -> "r" [] c = "P" -> "p" [] c = "I" -> "i"
      [] c = "D" -> "d" [] c = "Y" -> "y" [] c = "F" -> "f" [] c = "L" -> "l"
      [] c = "C" -> "c" [] c = "W" -> "w" [] c = "X" -> "x" [] c = "B" -> "b"
      [] c = "G" -> "g" [] c = "J" -> "j" [] c = "K" -> "k" [] c = "Q" -> "q"
      [] c = "V" -> "v" [] c = "Z" -> "z"
      [] OTHER -> c

\* str::to_lowercase
RECURSIVE ToLowercase(_)
ToLowercase(s) ==
    IF s = "" THEN "" ELSE LowerCh(Ch(s, 1)) \o ToLowercase(SubSeq(s, 2, Len(s)))

\* str::lines: split at "\n", a final line without "\n" is a line, a "\r"
\* before the "\n" is dropped with it.
StripCr(l) ==
    IF Len(l) > 0 /\ Ch(l, Len(l)) = "\r" THEN SubSeq(l, 1, Len(l) - 1) ELSE l

RECURSIVE Lines(_)
Lines(s) ==
    IF s = "" THEN <<>>
    ELSE LET nl == {i \in 1..Len(s) : Ch(s, i) = "\n"}
         IN  IF nl = {} THEN <<s>>
             ELSE <<StripCr(SubSeq(s, 1, Min(nl) - 1))>>
                  \o Lines(SubSeq(s, Min(nl) + 1, Len(s)))

\* str::splitn(2, ' '): at most two parts, split at the first space.
Splitn2(s) ==
    LET sp == {i \in 1..Len(s) : Ch(s, i) = " "}
    IN  IF sp = {} THEN <<s>>
        ELSE <<SubSeq(s, 1, Min(sp) - 1), SubSeq(s, Min(sp) + 1, Len(s))>>

U16Max == 65535

\* load_file frames the call stack holds before it overflows
MaxIncludeDepth == 4

\* mutation-engine calls in one run
MaxOps == 2

\* confirmed adds and edits in one run of the application
MaxAppOps == 1

\* largest selection index followed on an empty registry
MaxSelected == 2

\* longest root file of the startup runs, in lines
MaxLines == 3

DigitVal(c) ==
    CASE c = "0" -> 0 [] c = "1" -> 1 [] c = "2" -> 2 [] c = "3" -> 3
      [] c = "4" -> 4 [] c = "5" -> 5 [] c = "6" -> 6 [] c = "7" -> 7
      [] c = "8" -> 8 [] c = "9" -> 9 [] OTHER -> -1

RECURSIVE DecimalValue(_, _)
DecimalValue(s, acc) ==
    IF s = "" THEN acc
    ELSE IF DigitVal(Ch(s, 1)) < 0 \/ acc < 0 \/ acc > U16Max THEN -1
    ELSE DecimalValue(SubSeq(s, 2, Len(s)), acc * 10 + DigitVal(Ch(s, 1)))

\* str::parse::<u16>().ok(): an optional "+", then one or more digits, the
\* value at most u16::MAX.
ParseU16(s) ==
    LET d == IF StartsWith(s, "+") THEN SubSeq(s, 2, Len(s)) ELSE s
        v == IF d = "" THEN -1 ELSE DecimalValue(d, 0)
    IN  IF v < 0 \/ v > U16Max THEN None ELSE Some(v)

(***************************************************************************)
(* Paths (std::path) and the file system (std::fs).  The paths of the      *)
(* model carry no trailing "/", no "//" and no "." component.              *)
(***************************************************************************)
LastSlash(p) == Max({i \in 1..Len(p) : Ch(p, i) = "/"} \cup {0})

\* Path::parent
Parent(p) ==
    IF p = "" \/ p = "/" THEN None
    ELSE IF LastSlash(p) = 0 THEN Some("")
    ELSE IF LastSlash(p) = 1 THEN Some("/")
    ELSE Some(SubSeq(p, 1, LastSlash(p) - 1))

\* Path::file_name: the last component, unless it is ".." or the path is a root.
FileName(p) ==
    LET n == SubSeq(p, LastSlash(p) + 1, Len(p))
    IN  IF n = "" \/ n = ".." THEN None ELSE Some(n)

\* Path::join: an absolute argument replaces the base.
PathJoin(base, rel) ==
    IF StartsWith(rel, "/") THEN rel
    ELSE IF base = "" THEN rel
    ELSE IF Ch(base, Len(base)) = "/" THEN base \o rel
    ELSE base \o "/" \o rel

\* A directory exists when a file lies below it.
IsDir(files, p) == \E f \in DOMAIN files : StartsWith(f, p \o "/")

\* PathExists answering yes for every path
PathExists_Always(files, p) == TRUE

\* Path::exists
PathExists(files, p) == p \in DOMAIN files \/ IsDir(files, p)

\* the file system after a file's content is set (created when absent)
WriteFile(files, p, content) ==
    [q \in DOMAIN files \cup {p} |-> IF q = p THEN content ELSE files[q]]

\* home::home_dir()
HomeDir == "/h"

\* AppConfig::get_main_config_path
MainConfigPath(wd) == PathJoin(wd, "config")

(***************************************************************************)
(* The parser (ssh_config.rs).                                             *)
(***************************************************************************)
\* struct SshHost, as built by the "host" arm of parse
NewHost(name, source_dir) ==
    [name |-> name, hostname |-> None, user |-> None, port |-> None,
     identity_file |-> None, other_options |-> <<>>, is_separator |-> FALSE,
     source_dir |-> source_dir]

\* SeparatorHost with the source label left unset
SeparatorHost_Unlabelled(dir_name) ==
    [name |-> "-- " \o dir_name \o " --", hostname |-> None, user |-> None,
     port |-> None, identity_file |-> None, other_options |-> <<>>,
     is_separator |-> TRUE, source_dir |-> None]

\* the separator entry pushed by the "include" arm of parse; the source's
\* U+2500 box-drawing characters are written "--"
SeparatorHost(dir_name) ==
    [name |-> "-- " \o dir_name \o " --", hostname |-> None, user |-> None,
     port |-> None, identity_file |-> None, other_options |-> <<>>,
     is_separator |-> TRUE, source_dir |-> Some(dir_name)]

\* HashMap::insert
MapInsert(m, k, v) == [x \in DOMAIN m \cup {k} |-> IF x = k THEN v ELSE m[x]]

\* SshConfig::resolve_include_path; slicing [2..] of a one-character
\* argument panics.
ResolveIncludePath(include_value, base_dir) ==
    IF StartsWith(include_value, "~")
    THEN IF Len(include_value) < 2 THEN [err |-> "panic", path |-> ""]
         ELSE [err |-> "none",
               path |-> PathJoin(HomeDir, SubSeq(include_value, 3, Len(include_value)))]
    ELSE IF StartsWith(include_value, "/")
    THEN [err |-> "none", path |-> include_value]
    ELSE [err |-> "none", path |-> PathJoin(base_dir, include_value)]

\* SplitLine without the trimming of the line and of the value
SplitLine_Untrimmed(raw) ==
    IF raw = "" \/ StartsWith(raw, "#") THEN <<>>
    ELSE IF Len(Splitn2(raw)) # 2 THEN <<>>
    ELSE <<ToLowercase(Splitn2(raw)[1]), Splitn2(raw)[2]>>

\* the line split of parse: <<key, value>>, or <<>> for a line parse skips
SplitLine(raw) ==
    LET line == Trim(raw)
    IN  IF line = "" \/ StartsWith(line, "#") THEN <<>>
        ELSE IF Len(Splitn2(line)) # 2 THEN <<>>
        ELSE <<ToLowercase(Splitn2(line)[1]), Trim(Splitn2(line)[2])>>

\* SetField keeping the first value of hostname instead of the last
SetField_FirstHostname(host, key, value) ==
    CASE key = "hostname"     -> IF host.hostname = None
                                 THEN [host EXCEPT !.hostname = Some(value)]
                                 ELSE host
      [] key = "user"         -> [host EXCEPT !.user = Some(value)]
      [] key = "port"         -> [host EXCEPT !.port = ParseU16(value)]
      [] key = "identityfile" -> [host EXCEPT !.identity_file = Some(value)]
      [] OTHER -> [host EXCEPT !.other_options = MapInsert(@, key, value)]

\* SetField keeping the port an earlier line set when the value is no number
SetField_KeepPort(host, key, value) ==
    CASE key = "hostname"     -> [host EXCEPT !.hostname = Some(value)]
      [] key = "user"         -> [host EXCEPT !.user = Some(value)]
      [] key = "port"         -> IF ParseU16(value) = None THEN host
                                 ELSE [host EXCEPT !.port = ParseU16(value)]
      [] key = "identityfile" -> [host EXCEPT !.identity_file = Some(value)]
      [] OTHER -> [host EXCEPT !.other_options = MapInsert(@, key, value)]

\* the arms of parse that set a field of the open host
SetField(host, key, value) ==
    CASE key = "hostname"     -> [host EXCEPT !.hostname = Some(value)]
      [] key = "user"         -> [host EXCEPT !.user = Some(value)]
      [] key = "port"         -> [host EXCEPT !.port = ParseU16(value)]
      [] key = "identityfile" -> [host EXCEPT !.identity_file = Some(value)]
      [] OTHER -> [host EXCEPT !.other_options = MapInsert(@, key, value)]

\* hosts.push(host) for an open host (current_host.take())
Flush(acc, current) == IF current = None THEN acc ELSE Append(acc, current[1])

RECURSIVE ParseLines(_, _, _, _, _, _, _)
RECURSIVE LoadFile(_, _, _)

\* load_file giving an empty registry, instead of recursing further, once
\* MaxIncludeDepth frames are on the stack
LoadFile_DepthGuard(files, path, depth) ==
    IF depth > MaxIncludeDepth THEN [err |-> "none", hosts |-> <<>>]
    ELSE IF path \notin DOMAIN files THEN [err |-> "io", hosts |-> <<>>]
    ELSE ParseLines(files, Lines(files[path]),
                    UnwrapOr(Parent(path), "/"),
                    IF Parent(path) = None THEN None ELSE FileName(Parent(path)[1]),
                    <<>>, None, depth)

\* SshConfig::load_file.  depth is the number of load_file frames on the
\* call stack; the stack holds MaxIncludeDepth of them.
LoadFile(files, path, depth) ==
    IF depth > MaxIncludeDepth THEN [err |-> "overflow", hosts |-> <<>>]
    ELSE IF path \notin DOMAIN files THEN [err |-> "io", hosts |-> <<>>]
    ELSE ParseLines(files, Lines(files[path]),
                    UnwrapOr(Parent(path), "/"),
                    IF Parent(path) = None THEN None ELSE FileName(Parent(path)[1]),
                    <<>>, None, depth)

\* parse with an include arm that leaves the open host open when the target
\* of the Include line does not exist
ParseLines_IncludeKeepsOpen(files, lines, base_dir, source_dir, acc, current, depth) ==
    IF lines = <<>> THEN [err |-> "none", hosts |-> Flush(acc, current)]
    ELSE
      LET kv == SplitLine(Head(lines))
          rest == Tail(lines)
      IN
      IF kv = <<>> THEN ParseLines(files, rest, base_dir, source_dir, acc, current, depth)
      ELSE IF kv[1] = "include" THEN
          LET flushed == Flush(acc, current)
              inc == ResolveIncludePath(kv[2], base_dir)
          IN  IF inc.err # "none" THEN [err |-> inc.err, hosts |-> <<>>]
              ELSE IF ~PathExists(files, inc.path)
              THEN ParseLines(files, rest, base_dir, source_dir, acc, current, depth)
              ELSE
                LET dir_name ==
                        IF Parent(inc.path) = None THEN "unknown"
                        ELSE UnwrapOr(FileName(Parent(inc.path)[1]), "unknown")
                    included == LoadFile(files, inc.path, depth + 1)
                IN  IF included.err # "none" THEN [err |-> included.err, hosts |-> <<>>]
                    ELSE ParseLines(files, rest, base_dir, source_dir,
                                    Append(flushed, SeparatorHost(dir_name)) \o included.hosts,
                                    None, depth)
      ELSE IF kv[1] = "host" THEN
          ParseLines(files, rest, base_dir, source_dir, Flush(acc, current),
                     Some(NewHost(kv[2], source_dir)), depth)
      ELSE IF current = None
      THEN ParseLines(files, rest, base_dir, source_dir, acc, current, depth)
      ELSE ParseLines(files, rest, base_dir, source_dir, acc,
                      Some(SetField(current[1], kv[1], kv[2])), depth)

\* SshConfig::parse: the loop over the lines, with the result built so far
\* (acc) and the open host (current).
ParseLines(files, lines, base_dir, source_dir, acc, current, depth) ==
    IF lines = <<>> THEN [err |-> "none", hosts |-> Flush(acc, current)]
    ELSE
      LET kv == SplitLine(Head(lines))
          rest == Tail(lines)
      IN
      IF kv = <<>> THEN ParseLines(files, rest, base_dir, source_dir, acc, current, depth)
      ELSE IF kv[1] = "include" THEN
          LET flushed == Flush(acc, current)
              inc == ResolveIncludePath(kv[2], base_dir)
          IN  IF inc.err # "none" THEN [err |-> inc.err, hosts |-> <<>>]
              ELSE IF ~PathExists(files, inc.path)
              THEN ParseLines(files, rest, base_dir, source_dir, flushed, None, depth)
              ELSE
                LET dir_name ==
                        IF Parent(inc.path) = None THEN "unknown"
                        ELSE UnwrapOr(FileName(Parent(inc.path)[1]), "unknown")
                    included == LoadFile(files, inc.path, depth + 1)
                IN  IF included.err # "none" THEN [err |-> included.err, hosts |-> <<>>]
                    ELSE ParseLines(files, rest, base_dir, source_dir,
                                    Append(flushed, SeparatorHost(dir_name)) \o included.hosts,
                                    None, depth)
      ELSE IF kv[1] = "host" THEN
          ParseLines(files, rest, base_dir, source_dir, Flush(acc, current),
                     Some(NewHost(kv[2], source_dir)), depth)
      ELSE IF current = None
      THEN ParseLines(files, rest, base_dir, source_dir, acc, current, depth)
      ELSE ParseLines(files, rest, base_dir, source_dir, acc,
                      Some(SetField(current[1], kv[1], kv[2])), depth)

\* SshConfig::load_from_workdir
LoadFromWorkdir(files, wd) == LoadFile(files, PathJoin(wd, "config"), 1)

(***************************************************************************)
(* The form (form.rs).                                                     *)
(***************************************************************************)
\* HostForm::default
DefaultForm ==
    [folder |-> "", host |-> "", hostname |-> "", user |-> "", port |-> "",
     identity_file |-> "", local_forward |-> "", current_field |-> 0]

\* is_valid accepting every form
IsValid_Always(f) == TRUE

\* HostForm::is_valid
IsValid(f) == f.folder # "" /\ f.host # "" /\ f.hostname # "" /\ f.user # ""

DigitCh(d) ==
    CASE d = 0 -> "0" [] d = 1 -> "1" [] d = 2 -> "2" [] d = 3 -> "3" [] d = 4 -> "4"
      [] d = 5 -> "5" [] d = 6 -> "6" [] d = 7 -> "7" [] d = 8 -> "8" [] OTHER -> "9"

\* u16::to_string
RECURSIVE U16ToString(_)
U16ToString(n) == IF n < 10 THEN DigitCh(n) ELSE U16ToString(n \div 10) \o DigitCh(n % 10)

\* App::load_host_for_editing: the form it builds from an entry
FormOfHost(host) ==
    [folder |-> UnwrapOr(host.source_dir, "main"),
     host |-> host.name,
     hostname |-> UnwrapOr(host.hostname, ""),
     user |-> UnwrapOr(host.user, ""),
     port |-> IF host.port = None THEN "" ELSE U16ToString(host.port[1]),
     identity_file |-> UnwrapOr(host.identity_file, ""),
     local_forward |-> IF "localforward" \in DOMAIN host.other_options
                       THEN host.other_options["localforward"] ELSE "",
     current_field |-> 0]

(***************************************************************************)
(* The mutation engine (tui.rs).  Every std::fs / std::io call may fail:   *)
(* an operation takes the step that fails (fail.at, "none" for no failure; *)
(* fail.k is the number of writes that succeed before a failing write) and *)
(* returns the files it leaves and whether it returned Ok.                 *)
(***************************************************************************)
NoFail == [at |-> "none", k |-> 0]

\* text of the first k of the lines, each followed by "\n" (writeln!)
RECURSIVE WriteLines(_, _)
WriteLines(lines, k) ==
    IF k = 0 \/ lines = <<>> THEN ""
    ELSE Head(lines) \o "\n" \o WriteLines(Tail(lines), k - 1)

\* BlockLines writing the Port line also for an empty port
BlockLines_PortAlways(f) ==
    <<"Host " \o f.host, "    Hostname " \o f.hostname, "    User " \o f.user>>
    \o <<"    Port " \o f.port>>
    \o (IF f.identity_file # "" THEN <<"    IdentityFile " \o f.identity_file>> ELSE <<>>)
    \o (IF f.local_forward # "" THEN <<"    LocalForward " \o f.local_forward>> ELSE <<>>)

\* the lines save_host writes for the host block
BlockLines(f) ==
    <<"Host " \o f.host, "    Hostname " \o f.hostname, "    User " \o f.user>>
    \o (IF f.port # "" THEN <<"    Port " \o f.port>> ELSE <<>>)
    \o (IF f.identity_file # "" THEN <<"    IdentityFile " \o f.identity_file>> ELSE <<>>)
    \o (IF f.local_forward # "" THEN <<"    LocalForward " \o f.local_forward>> ELSE <<>>)

\* the path save_host appends to
SaveTarget(wd, f) == PathJoin(PathJoin(wd, f.folder), "config")

\* format!("Include {}", new_config_path.display())
IncludeLine(new_config_path) == "Include " \o new_config_path

\* fs::create_dir_all fails when a component of the directory is a regular file
DirBlocked(files, dir) ==
    \E q \in DOMAIN files : q = dir \/ StartsWith(dir, q \o "/")

\* mutant: the root file is never seen to hold the Include line
AlreadyIncluded_Never(content, include_line) == FALSE

\* the `contains` test of add_include_to_main_config
AlreadyIncluded(content, include_line) == Contains(content, include_line)

\* add_include_to_main_config writing the Include line after the previous
\* content instead of before it
AddIncludeToMainConfig_Append(files, wd, new_config_path, fail) ==
    LET main_config == MainConfigPath(wd)
        include_line == IncludeLine(new_config_path)
    IN
    IF PathExists(files, main_config) THEN
        IF main_config \notin DOMAIN files \/ fail.at = "reg_read"
        THEN [files |-> files, ok |-> FALSE]
        ELSE
          LET content == files[main_config]
              pieces == (IF content # "" THEN <<content, "\n">> ELSE <<>>)
                        \o <<include_line \o "\n">>
              done == IF fail.at = "reg_write" /\ fail.k < Len(pieces)
                      THEN fail.k ELSE Len(pieces)
              written == IF done = 0 THEN ""
                         ELSE IF done = 1 THEN pieces[1]
                         ELSE IF done = 2 THEN pieces[1] \o pieces[2]
                         ELSE pieces[1] \o pieces[2] \o pieces[3]
          IN  IF AlreadyIncluded(content, include_line) THEN [files |-> files, ok |-> TRUE]
              ELSE IF fail.at = "reg_open" THEN [files |-> files, ok |-> FALSE]
              ELSE [files |-> WriteFile(files, main_config, written),
                    ok |-> done = Len(pieces)]
    ELSE
        IF fail.at = "reg_mkdir" \/ DirBlocked(files, wd) THEN [files |-> files, ok |-> FALSE]
        ELSE IF fail.at = "reg_open" THEN [files |-> files, ok |-> FALSE]
        ELSE IF fail.at = "reg_write"
        THEN [files |-> WriteFile(files, main_config, ""), ok |-> FALSE]
        ELSE [files |-> WriteFile(files, main_config, include_line \o "\n"), ok |-> TRUE]

\* App::add_include_to_main_config
AddIncludeToMainConfig(files, wd, new_config_path, fail) ==
    LET main_config == MainConfigPath(wd)
        include_line == IncludeLine(new_config_path)
    IN
    IF PathExists(files, main_config) THEN
        IF main_config \notin DOMAIN files \/ fail.at = "reg_read"
        THEN [files |-> files, ok |-> FALSE]
        ELSE
          LET content == files[main_config]
              pieces == <<include_line \o "\n">>
                        \o (IF content # "" THEN <<"\n", content>> ELSE <<>>)
              done == IF fail.at = "reg_write" /\ fail.k < Len(pieces)
                      THEN fail.k ELSE Len(pieces)
              written == IF done = 0 THEN ""
                         ELSE IF done = 1 THEN pieces[1]
                         ELSE IF done = 2 THEN pieces[1] \o pieces[2]
                         ELSE pieces[1] \o pieces[2] \o pieces[3]
          IN  IF AlreadyIncluded(content, include_line) THEN [files |-> files, ok |-> TRUE]
              ELSE IF fail.at = "reg_open" THEN [files |-> files, ok |-> FALSE]
              ELSE [files |-> WriteFile(files, main_config, written),
                    ok |-> done = Len(pieces)]
    ELSE
        IF fail.at = "reg_mkdir" \/ DirBlocked(files, wd) THEN [files |-> files, ok |-> FALSE]
        ELSE IF fail.at = "reg_open" THEN [files |-> files, ok |-> FALSE]
        ELSE IF fail.at = "reg_write"
        THEN [files |-> WriteFile(files, main_config, ""), ok |-> FALSE]
        ELSE [files |-> WriteFile(files, main_config, include_line \o "\n"), ok |-> TRUE]

\* App::save_host
SaveHost(files, wd, f, fail) ==
    LET config_path == SaveTarget(wd, f)
        is_new_file == ~PathExists(files, config_path)
        old == IF config_path \in DOMAIN files THEN files[config_path] ELSE ""
        out == (IF Len(old) > 0 THEN <<"">> ELSE <<>>) \o BlockLines(f)
        done == IF fail.at = "write" /\ fail.k < Len(out) THEN fail.k ELSE Len(out)
        appended == WriteFile(files, config_path, old \o WriteLines(out, done))
    IN
    IF fail.at = "mkdir" \/ DirBlocked(files, PathJoin(wd, f.folder))
    THEN [files |-> files, ok |-> FALSE]
    ELSE IF fail.at = "open" \/ IsDir(files, config_path)
    THEN [files |-> files, ok |-> FALSE]
    ELSE IF fail.at = "metadata"
    THEN [files |-> WriteFile(files, config_path, old), ok |-> FALSE]
    ELSE IF done < Len(out) THEN [files |-> appended, ok |-> FALSE]
    ELSE IF is_new_file THEN AddIncludeToMainConfig(appended, wd, config_path, fail)
    ELSE [files |-> appended, ok |-> TRUE]

\* the scan loop of remove_host_from_file: the new content built from the
\* lines; skipping is TRUE inside the inner loop that drops a block.
RECURSIVE RemoveScan(_, _, _)
RemoveScan(lines, name, skipping) ==
    IF lines = <<>> THEN ""
    ELSE
      LET line == Head(lines)
          trimmed == Trim(line)
      IN  IF skipping
          THEN IF StartsWith(trimmed, "Host ")
               THEN line \o "\n" \o RemoveScan(Tail(lines), name, FALSE)
               ELSE RemoveScan(Tail(lines), name, TRUE)
          ELSE IF StartsWith(trimmed, "Host ") /\ trimmed = "Host " \o name
               THEN RemoveScan(Tail(lines), name, TRUE)
               ELSE line \o "\n" \o RemoveScan(Tail(lines), name, FALSE)

\* the file remove_host_from_file rewrites for an entry
RemoveTarget(wd, host) ==
    LET source_dir == UnwrapOr(host.source_dir, "ssh")
    IN  IF source_dir = "ssh" THEN MainConfigPath(wd)
        ELSE PathJoin(PathJoin(wd, source_dir), "config")

\* App::remove_host_from_file(host_index); host_index counts from 0
RemoveHostFromFile(files, wd, registry, host_index, fail) ==
    IF host_index >= Len(registry) THEN [files |-> files, ok |-> TRUE]
    ELSE
      LET host == registry[host_index + 1]
          config_path == RemoveTarget(wd, host)
      IN  IF ~PathExists(files, config_path) THEN [files |-> files, ok |-> TRUE]
          ELSE IF config_path \notin DOMAIN files \/ fail.at = "rm_read"
          THEN [files |-> files, ok |-> FALSE]
          ELSE IF fail.at = "rm_create" THEN [files |-> files, ok |-> FALSE]
          ELSE IF fail.at = "rm_write"
          THEN [files |-> WriteFile(files, config_path, ""), ok |-> FALSE]
          ELSE [files |-> WriteFile(files, config_path,
                                    RemoveScan(Lines(files[config_path]), host.name, FALSE)),
                ok |-> TRUE]

\* App::update_host
UpdateHost(files, wd, registry, editing, f, fail) ==
    IF editing = None THEN [files |-> files, ok |-> TRUE]
    ELSE LET removed == RemoveHostFromFile(files, wd, registry, editing[1], fail)
         IN  IF ~removed.ok THEN removed
             ELSE SaveHost(removed.files, wd, f, fail)

(***************************************************************************)
(* Inputs of the specifications.                                           *)
(***************************************************************************)
\* the configured root of the engine runs
EngineRoot == "/h/.ssh"

\* an optional file: <<>> (absent) or <<content>>
DiskOf(root_path, root, w_path, w) ==
    [p \in (IF root = None THEN {} ELSE {root_path})
           \cup (IF w = None THEN {} ELSE {w_path}) |->
        IF p = root_path /\ root # None THEN root[1] ELSE w[1]]

\* the root files the engine runs start from: absent, empty, hosts only,
\* folder w registered (first line, not the first line, beside another
\* folder), and a longer Include line that embeds w's
EngineRoots(wd) ==
    LET inc_w == IncludeLine(PathJoin(PathJoin(wd, "w"), "config"))
        inc_v == IncludeLine(PathJoin(PathJoin(wd, "v"), "config"))
    IN  { None,
          Some(""),
          Some("Host a\n    Hostname h\n    User u\n"),
          Some(inc_w \o "\n"),
          Some("Host a\n    Hostname h\n\n" \o inc_w \o "\n"),
          Some(inc_v \o "\n\n" \o inc_w \o ".bak\n") }

\* the folder files the engine runs start from
EngineFolderFiles ==
    { None,
      Some(""),
      Some("Host b\n    Hostname h\n    User u\n"),
      Some("Host x\nHostname a\nHost y\nHostname b\n"),
      Some("Host x\n    Hostname a\nHost x\n    Hostname b\n\nHost y\n  Host x\n\tUser r\n# end"),
      Some("Host y\r\n  Port 1\r\n\r\nhost x\n") }

\* the forms confirmed in the engine runs (all satisfy is_valid)
EngineForms ==
    { [DefaultForm EXCEPT !.folder = "w", !.host = "x", !.hostname = "h", !.user = "u"],
      [DefaultForm EXCEPT !.folder = "w", !.host = "y", !.hostname = "h", !.user = "u",
                          !.port = "22", !.local_forward = "1 l:2"],
      [DefaultForm EXCEPT !.folder = "v", !.host = "x", !.hostname = "g", !.user = "u",
                          !.identity_file = "k"] }

\* the registry entries removed in the engine runs
EngineHosts ==
    { NewHost("x", Some("w")), NewHost("y", Some("w")), NewHost("x", Some("v")),
      NewHost("a", None), NewHost("a", Some("ssh")) }

\* the failures injected into save_host
SaveFails ==
    { NoFail, [at |-> "mkdir", k |-> 0], [at |-> "open", k |-> 0],
      [at |-> "metadata", k |-> 0], [at |-> "write", k |-> 1],
      [at |-> "reg_read", k |-> 0], [at |-> "reg_mkdir", k |-> 0],
      [at |-> "reg_open", k |-> 0], [at |-> "reg_write", k |-> 0],
      [at |-> "reg_write", k |-> 2] }

\* the failures injected into remove_host_from_file
RemoveFails ==
    { NoFail, [at |-> "rm_read", k |-> 0], [at |-> "rm_create", k |-> 0],
      [at |-> "rm_write", k |-> 0] }

\* history record of one engine call
OpRecord(kind, f, host, fail, before, result) ==
    [kind |-> kind, form |-> [f EXCEPT !.current_field = 0], host |-> host,
     fail |-> IF result.ok THEN NoFail ELSE fail,
     before |-> before, after |-> result.files, ok |-> result.ok]

\* no engine call has returned Err (run_app returns on the first Err)
AllOk == \A i \in DOMAIN ops : ops[i].ok

(***************************************************************************)
(* SpecEngine: the mutation engine called directly, from any disk.         *)
(***************************************************************************)
EngineInit ==
    /\ workdir = EngineRoot
    /\ \E root \in EngineRoots(EngineRoot), w \in EngineFolderFiles :
         fs = DiskOf(MainConfigPath(EngineRoot), root,
                     PathJoin(PathJoin(EngineRoot, "w"), "config"), w)
    /\ hosts = <<>>
    /\ state = "Confirm"
    /\ form = DefaultForm
    /\ editing_host_index = None
    /\ selected = None
    /\ popup_message = ""
    /\ search_query = ""
    /\ filtered_hosts = <<>>
    /\ exit = "running"
    /\ ops = <<>>

\* save_host with the form f
EngineSave ==
    \E f \in EngineForms, fail \in SaveFails :
      /\ AllOk /\ Len(ops) < MaxOps
      /\ form' = f
      /\ fs' = SaveHost(fs, workdir, f, fail).files
      /\ ops' = Append(ops, OpRecord("save", f, None, fail, fs,
                                     SaveHost(fs, workdir, f, fail)))
      /\ UNCHANGED <<search_query, filtered_hosts>>
      /\ UNCHANGED <<workdir, hosts, state, editing_host_index, selected,
                     popup_message, exit>>

\* remove_host_from_file for the entry h of the registry
EngineRemove ==
    \E h \in EngineHosts, fail \in RemoveFails :
      /\ AllOk /\ Len(ops) < MaxOps
      /\ hosts' = <<h>>
      /\ fs' = RemoveHostFromFile(fs, workdir, <<h>>, 0, fail).files
      /\ ops' = Append(ops, OpRecord("remove", form, Some(h), fail, fs,
                                     RemoveHostFromFile(fs, workdir, <<h>>, 0, fail)))
      /\ UNCHANGED <<search_query, filtered_hosts>>
      /\ UNCHANGED <<workdir, state, form, editing_host_index, selected,
                     popup_message, exit>>

EngineNext == EngineSave \/ EngineRemove

SpecEngine == EngineInit /\ [][EngineNext]_vars

(***************************************************************************)
(* The application (tui.rs: App::new and the handlers of run_app).         *)
(***************************************************************************)
\* HostForm::get_field
GetField(f, index) ==
    CASE index = 0 -> f.folder [] index = 1 -> f.host [] index = 2 -> f.hostname
      [] index = 3 -> f.user [] index = 4 -> f.port [] index = 5 -> f.identity_file
      [] index = 6 -> f.local_forward [] OTHER -> ""

\* HostForm::set_field
SetFormField(f, index, value) ==
    CASE index = 0 -> [f EXCEPT !.folder = value]
      [] index = 1 -> [f EXCEPT !.host = value]
      [] index = 2 -> [f EXCEPT !.hostname = value]
      [] index = 3 -> [f EXCEPT !.user = value]
      [] index = 4 -> [f EXCEPT !.port = value]
      [] index = 5 -> [f EXCEPT !.identity_file = value]
      [] index = 6 -> [f EXCEPT !.local_forward = value]
      [] OTHER -> f

\* InitialSelection choosing index 0 whatever the entries are
InitialSelection_Zero(registry) == IF registry = <<>> THEN None ELSE Some(0)

\* the selection App::new makes: the first non-separator entry, else index 0;
\* none for an empty registry
InitialSelection(registry) ==
    IF registry = <<>> THEN None
    ELSE LET real == {i \in DOMAIN registry : ~registry[i].is_separator}
         IN  IF real = {} THEN Some(0) ELSE Some(Min(real) - 1)

\* usize::MAX, on the 31 bits of TLC's integers
UsizeMax == 2147483647

\* i + 1 with the wrap of App::next (index 0 after the last entry)
StepForward(registry, i) == IF i >= Len(registry) - 1 THEN 0 ELSE i + 1

\* i - 1 with the wrap of App::previous (the last entry before index 0)
StepBackward(registry, i) == IF i = 0 THEN Len(registry) - 1 ELSE i - 1

\* the `while` loops of App::next (forward) and App::previous: the index
\* they stop at, or -1 when they never stop; after Len(registry) steps
\* every index has been visited
RECURSIVE SkipSeparators(_, _, _, _)
SkipSeparators(registry, i, forward, fuel) ==
    IF i < Len(registry) /\ registry[i + 1].is_separator
    THEN IF fuel = 0 THEN -1
         ELSE SkipSeparators(registry,
                             IF forward THEN StepForward(registry, i)
                                        ELSE StepBackward(registry, i),
                             forward, fuel - 1)
    ELSE i

\* the words typed into the form fields, by field index
FieldWords(index) ==
    CASE index = 0 -> {"w", "v"} [] index = 1 -> {"x", "y"} [] index = 2 -> {"h"}
      [] index = 3 -> {"u"} [] OTHER -> {}

\* the characters typed
TypedChars == {"w", "v", "x", "y", "h", "u"}

\* the configured roots of the application runs
AppRoots == {"/h/.ssh", "/srv/ssh"}

\* the disks the application starts from: <<root file, file of folder w>>
AppDisks(wd) ==
    LET inc_w == IncludeLine(PathJoin(PathJoin(wd, "w"), "config"))
    IN  { <<Some(""), None>>,
          <<Some(inc_w \o "\n\nHost a\n    Hostname h\n    User u\n"),
            Some("Host x\n    Hostname h\n    User u\n    Port 22\n")>>,
          <<Some(inc_w \o "\n"),
            Some("Host x\n    Hostname h\n    User u\n\nHost y\n    Hostname g\n    User u\n")>>,
          <<Some(inc_w \o "\n"), Some("# empty\n")>>,
          <<Some(inc_w \o "\n"),
            Some("Host x\n    Hostname h\n    User u\n    ProxyJump j\n")>> }

\* the failures injected into update_host
UpdateFails == SaveFails \cup RemoveFails

AppInit ==
    /\ workdir \in AppRoots
    /\ \E d \in AppDisks(workdir) :
         fs = DiskOf(MainConfigPath(workdir), d[1],
                     PathJoin(PathJoin(workdir, "w"), "config"), d[2])
    /\ LoadFromWorkdir(fs, workdir).err = "none"
    /\ hosts = LoadFromWorkdir(fs, workdir).hosts
    /\ selected = InitialSelection(hosts)
    /\ state = "List"
    /\ form = DefaultForm
    /\ editing_host_index = None
    /\ popup_message = ""
    /\ search_query = ""
    /\ filtered_hosts = <<>>
    /\ exit = "running"
    /\ ops = <<>>

\* List, 'q'
ListKeyQ ==
    /\ exit = "running" /\ state = "List"
    /\ exit' = "quit"
    /\ UNCHANGED <<search_query, filtered_hosts>>
    /\ UNCHANGED <<fs, workdir, hosts, state, form, editing_host_index, selected,
                   popup_message, ops>>

\* List, 'a'
ListKeyA ==
    /\ exit = "running" /\ state = "List"
    /\ state' = "Form"
    /\ form' = DefaultForm
    /\ editing_host_index' = None
    /\ UNCHANGED <<search_query, filtered_hosts>>
    /\ UNCHANGED <<fs, workdir, hosts, selected, popup_message, exit, ops>>

\* List, 'e' (load_host_for_editing)
ListKeyE ==
    /\ exit = "running" /\ state = "List"
    /\ selected # None
    /\ selected[1] < Len(hosts)
    /\ ~hosts[selected[1] + 1].is_separator
    /\ editing_host_index' = selected
    /\ form' = FormOfHost(hosts[selected[1] + 1])
    /\ state' = "Edit"
    /\ UNCHANGED <<search_query, filtered_hosts>>
    /\ UNCHANGED <<fs, workdir, hosts, selected, popup_message, exit, ops>>

\* the outcome of App::next (forward) / App::previous on the selection:
\* `hosts.len() - 1` overflows on an empty registry, which panics in a
\* build with overflow checks and wraps to usize::MAX in one without
Navigate(forward) ==
    /\ exit = "running" /\ state = "List"
    /\ \/ /\ selected # None /\ hosts = <<>>
          /\ exit' = "panic"
          /\ UNCHANGED selected
       \/ /\ selected # None /\ hosts = <<>>
          /\ selected[1] \in {0, UsizeMax} \/ selected[1] <= MaxSelected
          /\ selected' = IF forward
                         THEN IF selected[1] >= UsizeMax THEN Some(0)
                              ELSE Some(selected[1] + 1)
                         ELSE IF selected[1] = 0 THEN Some(UsizeMax)
                              ELSE Some(selected[1] - 1)
          /\ UNCHANGED exit
       \/ /\ selected = None \/ hosts # <<>>
          /\ LET start == IF selected = None THEN 0
                          ELSE IF forward THEN StepForward(hosts, selected[1])
                          ELSE StepBackward(hosts, selected[1])
                 stop == SkipSeparators(hosts, start, forward, Len(hosts))
             IN  IF stop < 0
                 THEN exit' = "hang" /\ UNCHANGED selected
                 ELSE selected' = Some(stop) /\ UNCHANGED exit
    /\ UNCHANGED <<search_query, filtered_hosts>>
    /\ UNCHANGED <<fs, workdir, hosts, state, form, editing_host_index,
                   popup_message, ops>>

\* List, Down
ListKeyDown == Navigate(TRUE)

\* List, Up
ListKeyUp == Navigate(FALSE)

\* Form / Edit, Esc
FormKeyEsc ==
    /\ exit = "running" /\ state \in {"Form", "Edit"}
    /\ state' = "List"
    /\ editing_host_index' = None
    /\ UNCHANGED <<search_query, filtered_hosts>>
    /\ UNCHANGED <<fs, workdir, hosts, form, selected, popup_message, exit, ops>>

\* Form / Edit, Tab (next_field)
FormKeyTab ==
    /\ exit = "running" /\ state \in {"Form", "Edit"}
    /\ form' = [form EXCEPT !.current_field = (@ + 1) % 7]
    /\ UNCHANGED <<search_query, filtered_hosts>>
    /\ UNCHANGED <<fs, workdir, hosts, state, editing_host_index, selected,
                   popup_message, exit, ops>>

\* Form / Edit, BackTab (prev_field)
FormKeyBackTab ==
    /\ exit = "running" /\ state \in {"Form", "Edit"}
    /\ form' = [form EXCEPT !.current_field = IF @ = 0 THEN 6 ELSE @ - 1]
    /\ UNCHANGED <<search_query, filtered_hosts>>
    /\ UNCHANGED <<fs, workdir, hosts, state, editing_host_index, selected,
                   popup_message, exit, ops>>

\* Form / Edit, Char(c); the user types the words of FieldWords
FormKeyChar ==
    /\ exit = "running" /\ state \in {"Form", "Edit"}
    /\ \E c \in TypedChars :
         /\ \E w \in FieldWords(form.current_field) :
              StartsWith(w, GetField(form, form.current_field) \o c)
         /\ form' = SetFormField(form, form.current_field,
                                 GetField(form, form.current_field) \o c)
    /\ UNCHANGED <<search_query, filtered_hosts>>
    /\ UNCHANGED <<fs, workdir, hosts, state, editing_host_index, selected,
                   popup_message, exit, ops>>

\* Form / Edit, Backspace
FormKeyBackspace ==
    /\ exit = "running" /\ state \in {"Form", "Edit"}
    /\ LET cur == GetField(form, form.current_field)
       IN  form' = SetFormField(form, form.current_field,
                                SubSeq(cur, 1, Len(cur) - 1))
    /\ UNCHANGED <<search_query, filtered_hosts>>
    /\ UNCHANGED <<fs, workdir, hosts, state, editing_host_index, selected,
                   popup_message, exit, ops>>

\* Form / Edit, Enter
FormKeyEnter ==
    /\ exit = "running" /\ state \in {"Form", "Edit"}
    /\ IsValid(form)
    /\ state' = IF editing_host_index # None THEN "ConfirmEdit" ELSE "Confirm"
    /\ UNCHANGED <<search_query, filtered_hosts>>
    /\ UNCHANGED <<fs, workdir, hosts, form, editing_host_index, selected,
                   popup_message, exit, ops>>

\* Confirm, Esc
ConfirmKeyEsc ==
    /\ exit = "running" /\ state = "Confirm"
    /\ state' = "Form"
    /\ UNCHANGED <<search_query, filtered_hosts>>
    /\ UNCHANGED <<fs, workdir, hosts, form, editing_host_index, selected,
                   popup_message, exit, ops>>

\* what follows `self.save_host()?` / `self.update_host()?` in run_app: on
\* Ok the list state, on Err run_app returns the error
AfterMutation(result) ==
    IF result.ok
    THEN state' = "List" /\ editing_host_index' = None /\ UNCHANGED exit
    ELSE exit' = "error" /\ UNCHANGED <<state, editing_host_index>>

\* Confirm, Enter
ConfirmKeyEnter ==
    /\ exit = "running" /\ state = "Confirm"
    /\ Len(ops) < MaxAppOps
    /\ \E fail \in SaveFails :
         LET result == SaveHost(fs, workdir, form, fail)
         IN  /\ fs' = result.files
             /\ ops' = Append(ops, OpRecord("save", form, None, fail, fs, result))
             /\ AfterMutation(result)
    /\ UNCHANGED <<search_query, filtered_hosts>>
    /\ UNCHANGED <<workdir, hosts, form, selected, popup_message>>

\* ConfirmEdit, Esc
ConfirmEditKeyEsc ==
    /\ exit = "running" /\ state = "ConfirmEdit"
    /\ state' = "Edit"
    /\ UNCHANGED <<search_query, filtered_hosts>>
    /\ UNCHANGED <<fs, workdir, hosts, form, editing_host_index, selected,
                   popup_message, exit, ops>>

\* ConfirmEdit, Enter
ConfirmEditKeyEnter ==
    /\ exit = "running" /\ state = "ConfirmEdit"
    /\ Len(ops) < MaxAppOps
    /\ \E fail \in UpdateFails :
         LET result == UpdateHost(fs, workdir, hosts, editing_host_index, form, fail)
         IN  /\ fs' = result.files
             /\ ops' = Append(ops, OpRecord("update", form,
                                            IF editing_host_index = None
                                               \/ editing_host_index[1] >= Len(hosts)
                                            THEN None
                                            ELSE Some(hosts[editing_host_index[1] + 1]),
                                            fail, fs, result))
             /\ AfterMutation(result)
    /\ UNCHANGED <<search_query, filtered_hosts>>
    /\ UNCHANGED <<workdir, hosts, form, selected, popup_message>>

\* the keys of the list, the form and the confirmations; the keys of the
\* search are the steps of SpecSelect below
Next ==
    \/ ListKeyQ \/ ListKeyA \/ ListKeyE \/ ListKeyDown \/ ListKeyUp
    \/ FormKeyEsc \/ FormKeyTab \/ FormKeyBackTab \/ FormKeyChar
    \/ FormKeyBackspace \/ FormKeyEnter
    \/ ConfirmKeyEsc \/ ConfirmKeyEnter
    \/ ConfirmEditKeyEsc \/ ConfirmEditKeyEnter

Spec == AppInit /\ [][Next]_vars

\* the root of the form runs
FormRoot == "/h/.ssh"

\* the disks the form runs start from: an empty root file, and a folder w
\* with one host
FormDisks ==
    { <<Some(""), None>>,
      <<Some(IncludeLine(PathJoin(PathJoin(FormRoot, "w"), "config")) \o "\n"),
        Some("Host x\n    Hostname h\n    User u\n")>> }

FormInit ==
    /\ workdir = FormRoot
    /\ \E d \in FormDisks :
         fs = DiskOf(MainConfigPath(workdir), d[1],
                     PathJoin(PathJoin(workdir, "w"), "config"), d[2])
    /\ LoadFromWorkdir(fs, workdir).err = "none"
    /\ hosts = LoadFromWorkdir(fs, workdir).hosts
    /\ selected = InitialSelection(hosts)
    /\ state = "List"
    /\ form = DefaultForm
    /\ editing_host_index = None
    /\ popup_message = ""
    /\ search_query = ""
    /\ filtered_hosts = <<>>
    /\ exit = "running"
    /\ ops = <<>>

\* the application from the disks of the form runs
SpecForm == FormInit /\ [][Next]_vars

(***************************************************************************)
(* The list and the search (tui.rs: the List keys Down, Up and '/', and    *)
(* the handlers of the Search state).                                      *)
(***************************************************************************)
\* pattern is a subsequence of choice
RECURSIVE IsSubsequence(_, _)
IsSubsequence(pattern, choice) ==
    IF pattern = "" THEN TRUE
    ELSE IF choice = "" THEN FALSE
    ELSE IF Ch(pattern, 1) = Ch(choice, 1)
    THEN IsSubsequence(SubSeq(pattern, 2, Len(pattern)), SubSeq(choice, 2, Len(choice)))
    ELSE IsSubsequence(pattern, SubSeq(choice, 2, Len(choice)))

\* matcher.fuzzy_match(choice, pattern).is_some(): the characters of a
\* lower-case pattern occur in the choice in their order, in any letter case
FuzzyMatch(choice, pattern) == IsSubsequence(pattern, ToLowercase(choice))

\* the sequences that hold every element of S once
Orderings(S) ==
    {f \in [1..Cardinality(S) -> S] : \A i, j \in 1..Cardinality(S) : f[i] = f[j] => i = j}

\* update_search pushing the separators that match as well
UpdateSearch_WithSeparators(registry, query) ==
    IF query = "" THEN {<<>>}
    ELSE Orderings({i - 1 : i \in {k \in DOMAIN registry :
                                     FuzzyMatch(registry[k].name, query)}})

\* App::update_search: the values filtered_hosts can take.  The indices of
\* the matching non-separator entries, sorted by the score the matcher
\* computes; the scores are the matcher's, so every order is taken.
UpdateSearch(registry, query) ==
    IF query = "" THEN {<<>>}
    ELSE Orderings({i - 1 : i \in {k \in DOMAIN registry :
                                     /\ ~registry[k].is_separator
                                     /\ FuzzyMatch(registry[k].name, query)}})

\* the characters typed into the search
SearchChars == {"x", "w"}

\* the longest query typed
MaxQuery == 2

\* position of index i in filtered, 0 when it is not there
PositionIn(filtered, i) ==
    IF \E k \in DOMAIN filtered : filtered[k] = i
    THEN Min({k \in DOMAIN filtered : filtered[k] = i}) ELSE 0

\* List, '/'
ListKeySlash ==
    /\ exit = "running" /\ state = "List"
    /\ state' = "Search"
    /\ search_query' = ""
    /\ filtered_hosts' \in UpdateSearch(hosts, "")
    /\ UNCHANGED <<fs, workdir, hosts, form, editing_host_index, selected,
                   popup_message, exit, ops>>

\* Search, Esc
SearchKeyEsc ==
    /\ exit = "running" /\ state = "Search"
    /\ state' = "List"
    /\ search_query' = ""
    /\ UNCHANGED <<fs, workdir, hosts, form, editing_host_index, selected,
                   popup_message, filtered_hosts, exit, ops>>

\* Search, Enter
SearchKeyEnter ==
    /\ exit = "running" /\ state = "Search"
    /\ selected' = IF filtered_hosts # <<>> THEN Some(filtered_hosts[1]) ELSE selected
    /\ state' = "List"
    /\ search_query' = ""
    /\ UNCHANGED <<fs, workdir, hosts, form, editing_host_index,
                   popup_message, filtered_hosts, exit, ops>>

\* Search, Char(c)
SearchKeyChar ==
    /\ exit = "running" /\ state = "Search"
    /\ Len(search_query) < MaxQuery
    /\ \E c \in SearchChars :
         /\ search_query' = search_query \o c
         /\ filtered_hosts' \in UpdateSearch(hosts, search_query \o c)
    /\ UNCHANGED <<fs, workdir, hosts, state, form, editing_host_index, selected,
                   popup_message, exit, ops>>

\* Search, Backspace
SearchKeyBackspace ==
    /\ exit = "running" /\ state = "Search"
    /\ search_query' = SubSeq(search_query, 1, Len(search_query) - 1)
    /\ filtered_hosts' \in UpdateSearch(hosts, SubSeq(search_query, 1, Len(search_query) - 1))
    /\ UNCHANGED <<fs, workdir, hosts, state, form, editing_host_index, selected,
                   popup_message, exit, ops>>

\* App::next_search_result (forward) / App::prev_search_result
SearchResult(forward) ==
    /\ exit = "running" /\ state = "Search"
    /\ IF filtered_hosts = <<>> THEN UNCHANGED selected
       ELSE LET current == UnwrapOr(selected, 0)
                pos == PositionIn(filtered_hosts, current)
            IN  selected' =
                  IF pos = 0 THEN Some(filtered_hosts[1])
                  ELSE IF forward
                  THEN Some(filtered_hosts[(pos % Len(filtered_hosts)) + 1])
                  ELSE Some(filtered_hosts[IF pos = 1 THEN Len(filtered_hosts)
                                           ELSE pos - 1])
    /\ UNCHANGED <<fs, workdir, hosts, state, form, editing_host_index,
                   popup_message, search_query, filtered_hosts, exit, ops>>

\* Search, Down
SearchKeyDown == SearchResult(TRUE)

\* Search, Up
SearchKeyUp == SearchResult(FALSE)

\* the root of the selection runs
SelectRoot == "/h/.ssh"

\* the disks the selection runs start from: an empty root file; a folder
\* before a host of the root file; a folder with two hosts; a folder
\* without hosts; hosts of the root file before a folder and an empty
\* folder after it
SelectDisks ==
    LET root == MainConfigPath(SelectRoot)
        w == PathJoin(PathJoin(SelectRoot, "w"), "config")
        v == PathJoin(PathJoin(SelectRoot, "v"), "config")
    IN  { root :> "",
          (root :> (IncludeLine(w) \o "\n\nHost a\n    Hostname h\n    User u\n"))
            @@ (w :> "Host x\n    Hostname h\n    User u\n    Port 22\n"),
          (root :> (IncludeLine(w) \o "\n"))
            @@ (w :> "Host x\n    Hostname h\n    User u\n\nHost xw\n    Hostname g\n"),
          (root :> (IncludeLine(w) \o "\n")) @@ (w :> "# empty\n"),
          (root :> ("Host x\nHost w\n" \o IncludeLine(w) \o "\n" \o IncludeLine(v) \o "\n"))
            @@ (w :> "Host wx\n") @@ (v :> "# empty\n") }

SelectInit ==
    /\ workdir = SelectRoot
    /\ fs \in SelectDisks
    /\ LoadFromWorkdir(fs, workdir).err = "none"
    /\ hosts = LoadFromWorkdir(fs, workdir).hosts
    /\ selected = InitialSelection(hosts)
    /\ state = "List"
    /\ form = DefaultForm
    /\ editing_host_index = None
    /\ popup_message = ""
    /\ search_query = ""
    /\ filtered_hosts = <<>>
    /\ exit = "running"
    /\ ops = <<>>

SelectNext ==
    \/ ListKeyDown \/ ListKeyUp \/ ListKeySlash
    \/ SearchKeyEsc \/ SearchKeyEnter \/ SearchKeyChar \/ SearchKeyBackspace
    \/ SearchKeyDown \/ SearchKeyUp

SpecSelect == SelectInit /\ [][SelectNext]_vars

(***************************************************************************)
(* Startup (main.rs): the root file is loaded, then the application is     *)
(* built from the registry.                                                *)
(***************************************************************************)
\* the root of the startup runs
ParseRoot == "/h/.ssh"

\* the lines the root files of the startup runs are made of
RootLines ==
    {"Host a", "HOST  b ", "  Hostname h", "Hostname g", "User u", "Port 22",
     "Port x", "IdentityFile k", "", "# Host c", "Include w/config",
     "Include missing"}

\* the texts the root files of the startup runs begin with
RootPreludes == {"", "Host a\nHostname h\n\n"}

\* the files the root files of the startup runs include
IncludedFiles ==
    ("/h/.ssh/w/config" :>
        "Host x\r\n    Hostname h\r\nInclude ~/.ssh/v/config\nHost z\n    User u\n")
    @@ ("/h/.ssh/v/config" :> "Host y\n    Port 22")

RECURSIVE JoinLines(_)
JoinLines(ls) == IF ls = <<>> THEN "" ELSE Head(ls) \o "\n" \o JoinLines(Tail(ls))

ParseInit ==
    /\ workdir = ParseRoot
    /\ \/ fs = IncludedFiles
       \/ \E pre \in RootPreludes, n \in 0..MaxLines : \E ls \in [1..n -> RootLines] :
            fs = WriteFile(IncludedFiles, MainConfigPath(workdir), pre \o JoinLines(ls))
    /\ hosts = <<>>
    /\ selected = None
    /\ state = "List"
    /\ form = DefaultForm
    /\ editing_host_index = None
    /\ popup_message = ""
    /\ search_query = ""
    /\ filtered_hosts = <<>>
    /\ exit = "starting"
    /\ ops = <<>>

\* main: SshConfig::load_from_workdir(..)?, then App::new
Startup ==
    /\ exit = "starting"
    /\ LET r == LoadFromWorkdir(fs, workdir)
       IN  IF r.err = "none"
           THEN /\ hosts' = r.hosts
                /\ selected' = InitialSelection(r.hosts)
                /\ exit' = "running"
           ELSE /\ UNCHANGED <<hosts, selected>>
                /\ exit' = IF r.err = "io" THEN "error" ELSE r.err
    /\ UNCHANGED <<search_query, filtered_hosts>>
    /\ UNCHANGED <<fs, workdir, state, form, editing_host_index, popup_message, ops>>

ParseNext == Startup

SpecParse == ParseInit /\ [][ParseNext]_vars

(***************************************************************************)
(* Vocabulary of the properties.                                           *)
(***************************************************************************)
\* byte content of a path, empty when the file is absent
Content(files, p) == IF p \in DOMAIN files THEN files[p] ELSE ""

FirstLine(content) == IF Lines(content) = <<>> THEN None ELSE Some(Lines(content)[1])

\* the written block layout of the specification, for a form without and
\* with optional fields
SpecBlock(f) ==
    "Host " \o f.host \o "\n    Hostname " \o f.hostname \o "\n    User " \o f.user \o "\n"
    \o (IF f.port = "" THEN "" ELSE "    Port " \o f.port \o "\n")
    \o (IF f.identity_file = "" THEN "" ELSE "    IdentityFile " \o f.identity_file \o "\n")
    \o (IF f.local_forward = "" THEN "" ELSE "    LocalForward " \o f.local_forward \o "\n")

\* number of lines of content equal to line
CountLine(content, line) ==
    Cardinality({i \in DOMAIN Lines(content) : Lines(content)[i] = line})

\* the folders the runs write to
Folders == {"w", "v"}

FolderConfig(wd, folder) == PathJoin(PathJoin(wd, folder), "config")

\* an append that returned Ok into a folder file that did not exist
IsAppendIntoNew(o) ==
    /\ o.kind = "save" /\ o.ok
    /\ ~PathExists(o.before, SaveTarget(workdir, o.form))

\* the root file mentioned the folder file of o before the call
RootMentioned(o) ==
    /\ MainConfigPath(workdir) \in DOMAIN o.before
    /\ Contains(o.before[MainConfigPath(workdir)],
                "Include " \o SaveTarget(workdir, o.form))

(***************************************************************************)
(* C1 (as stated): after an append into a folder whose file did not exist, *)
(* the folder file holds exactly the emitted block and the first line of   *)
(* the root file is the Include line of the folder file, whether or not    *)
(* the root file existed before.                                           *)
(***************************************************************************)
C1_NewFolderIncludeIsFirstLine ==
    \A i \in DOMAIN ops :
      IsAppendIntoNew(ops[i]) =>
        /\ Content(ops[i].after, SaveTarget(workdir, ops[i].form)) = SpecBlock(ops[i].form)
        /\ SaveTarget(workdir, ops[i].form) \in DOMAIN ops[i].after
        /\ FirstLine(Content(ops[i].after, MainConfigPath(workdir)))
             = Some("Include " \o SaveTarget(workdir, ops[i].form))

(***************************************************************************)
(* C1 (amended): after an append into a folder whose file did not exist,   *)
(* the folder file holds exactly the emitted block; the first line of the  *)
(* root file is the Include line of the folder file when the root file was *)
(* absent or did not contain that text, and the root file is unchanged     *)
(* when it already contained that text.                                    *)
(***************************************************************************)
C1_NewFolderRegistered ==
    \A i \in DOMAIN ops :
      IsAppendIntoNew(ops[i]) =>
        /\ Content(ops[i].after, SaveTarget(workdir, ops[i].form)) = SpecBlock(ops[i].form)
        /\ SaveTarget(workdir, ops[i].form) \in DOMAIN ops[i].after
        /\ MainConfigPath(workdir) \in DOMAIN ops[i].after
        /\ IF RootMentioned(ops[i])
           THEN ops[i].after[MainConfigPath(workdir)]
                  = ops[i].before[MainConfigPath(workdir)]
           ELSE FirstLine(ops[i].after[MainConfigPath(workdir)])
                  = Some("Include " \o SaveTarget(workdir, ops[i].form))

\* an append created the folder file and put its Include line first in a
\* root file that existed with other content
C1_Witness ==
    \E i \in DOMAIN ops :
      /\ IsAppendIntoNew(ops[i])
      /\ ~RootMentioned(ops[i])
      /\ Content(ops[i].before, MainConfigPath(workdir)) # ""
      /\ FirstLine(Content(ops[i].after, MainConfigPath(workdir)))
           = Some("Include " \o SaveTarget(workdir, ops[i].form))

(***************************************************************************)
(* C2: the root file holds the line `Include R/F/config` at most once for  *)
(* every folder F, after any sequence of appends and removals, and an      *)
(* append into a folder whose file exists leaves the root file unchanged.  *)
(***************************************************************************)
C2_IncludeAtMostOnce ==
    /\ \A F \in Folders :
         CountLine(Content(fs, MainConfigPath(workdir)),
                   "Include " \o FolderConfig(workdir, F)) <= 1
    /\ \A i \in DOMAIN ops :
         (ops[i].kind = "save" /\ ops[i].ok
            /\ SaveTarget(workdir, ops[i].form) \in DOMAIN ops[i].before)
         => /\ (MainConfigPath(workdir) \in DOMAIN ops[i].after)
                 = (MainConfigPath(workdir) \in DOMAIN ops[i].before)
            /\ Content(ops[i].after, MainConfigPath(workdir))
                 = Content(ops[i].before, MainConfigPath(workdir))

\* a second host was appended to a folder that an earlier append registered
C2_Witness ==
    \E i, j \in DOMAIN ops :
      /\ i < j
      /\ IsAppendIntoNew(ops[i])
      /\ ops[j].kind = "save" /\ ops[j].ok
      /\ ops[j].form.folder = ops[i].form.folder
      /\ CountLine(Content(fs, MainConfigPath(workdir)),
                   "Include " \o SaveTarget(workdir, ops[i].form)) = 1

\* the lines at the given indices, in order, each followed by one "\n"
RECURSIVE JoinKept(_, _, _)
JoinKept(lines, i, omitted) ==
    IF i > Len(lines) THEN ""
    ELSE (IF i \in omitted THEN "" ELSE lines[i] \o "\n") \o JoinKept(lines, i + 1, omitted)

\* line i opens a block named name
IsHostLineOf(lines, i, name) == Trim(lines[i]) = "Host " \o name

\* line i starts with `Host ` (surrounding whitespace aside)
IsHostLine(lines, i) == StartsWith(Trim(lines[i]), "Host ")

\* the block of the Host line i: i and every line after it before the next
\* Host line
BlockOf(lines, i) ==
    {j \in i..Len(lines) : \A k \in (i + 1)..j : ~IsHostLine(lines, k)}

\* the lines the specification omits when name is removed
SpecOmitted(lines, name) ==
    UNION {BlockOf(lines, i) : i \in {m \in DOMAIN lines : IsHostLineOf(lines, m, name)}}

\* a removal that returned Ok and found its target file
IsRemoval(o) ==
    /\ o.kind = "remove" /\ o.ok
    /\ RemoveTarget(workdir, o.host[1]) \in DOMAIN o.before

(***************************************************************************)
(* C3: remove-by-name of N produces the lines of the file, in order, each  *)
(* ended by one newline, without the lines `Host N` and the lines after    *)
(* each of them up to the next line that starts with `Host `.              *)
(***************************************************************************)
C3_RemoveOmitsTheBlock ==
    \A i \in DOMAIN ops :
      IsRemoval(ops[i]) =>
        LET t == RemoveTarget(workdir, ops[i].host[1])
            lines == Lines(ops[i].before[t])
        IN  Content(ops[i].after, t)
              = JoinKept(lines, 1, SpecOmitted(lines, ops[i].host[1].name))

\* names of the entries a file's own text defines (its includes skipped)
DirectNames(content) ==
    LET r == ParseLines(<<>>, Lines(content), "/", None, <<>>, None, 1).hosts
    IN  {r[i].name : i \in DOMAIN r}

(***************************************************************************)
(* C4: appending host A without optional fields to a folder file that has  *)
(* no block named A (empty, or holding other blocks) and then removing A   *)
(* by name restores the byte content the folder file had before.           *)
(***************************************************************************)
C4_AppendRemoveRoundTrip ==
    \A i \in DOMAIN ops :
      (/\ i + 1 \in DOMAIN ops
       /\ ops[i].kind = "save" /\ ops[i].ok
       /\ ops[i].form.port = "" /\ ops[i].form.identity_file = ""
       /\ ops[i].form.local_forward = ""
       /\ ops[i].form.host
            \notin DirectNames(Content(ops[i].before, SaveTarget(workdir, ops[i].form)))
       /\ ops[i + 1].kind = "remove" /\ ops[i + 1].ok
       /\ ops[i + 1].host[1].name = ops[i].form.host
       /\ RemoveTarget(workdir, ops[i + 1].host[1]) = SaveTarget(workdir, ops[i].form))
      => Content(ops[i + 1].after, SaveTarget(workdir, ops[i].form))
           = Content(ops[i].before, SaveTarget(workdir, ops[i].form))

(***************************************************************************)
(* C7: an append that returns an I/O error has changed no file.            *)
(***************************************************************************)
C7_FailedAppendChangesNothing ==
    \A i \in DOMAIN ops :
      (ops[i].kind = "save" /\ ~ops[i].ok) => ops[i].after = ops[i].before

(***************************************************************************)
(* C5: after a confirmed add or edit, back in the list state, the registry *)
(* in memory equals a fresh full parse of the files on disk.               *)
(***************************************************************************)
C5_RegistryFreshAfterMutation ==
    (exit = "running" /\ state = "List")
      => hosts = LoadFromWorkdir(fs, workdir).hosts

(***************************************************************************)
(* C6: when the append or remove of a confirmation fails with an I/O       *)
(* error, the application shows a message and keeps running.               *)
(***************************************************************************)
C6_FailedMutationKeepsRunning ==
    \A i \in DOMAIN ops :
      ~ops[i].ok => (exit = "running" /\ popup_message # "")

\* str::ends_with
EndsWith(s, suffix) ==
    Len(s) >= Len(suffix) /\ SubSeq(s, Len(s) - Len(suffix) + 1, Len(s)) = suffix

\* the entries the text of file p defines itself, with the label load_file
\* gives them
DirectEntries(files, p) ==
    LET r == LoadFile([q \in {p} |-> files[p]], p, MaxIncludeDepth).hosts
    IN  {r[i] : i \in DOMAIN r}

(***************************************************************************)
(* C8: after a confirmed edit of a parsed entry named N to new values      *)
(* under folder F, the block `Host N` is gone from the file that defined   *)
(* the entry and the new block is the last block of R/F/config, for        *)
(* entries of an included folder file and for entries of the root file.    *)
(***************************************************************************)
C8_UpdateRelocatesBlock ==
    \A i \in DOMAIN ops :
      (ops[i].kind = "update" /\ ops[i].ok /\ ops[i].host # None) =>
        LET h == ops[i].host[1]
            t == SaveTarget(workdir, ops[i].form)
            new_block == SpecBlock(ops[i].form)
        IN  /\ EndsWith(Content(ops[i].after, t), new_block)
            /\ \A p \in DOMAIN ops[i].before :
                 h \in DirectEntries(ops[i].before, p) =>
                   h.name \notin DirectNames(
                     IF p = t
                     THEN SubSeq(ops[i].after[p], 1, Len(ops[i].after[p]) - Len(new_block))
                     ELSE ops[i].after[p])

(***************************************************************************)
(* Vocabulary of the parse properties: the registry the grammar of the     *)
(* configuration files assigns to the lines of the root file.              *)
(***************************************************************************)
\* the keyword of a line: the lower-cased text before the first space of
\* the trimmed line; "" for a blank line, a comment and a line without value
DirectiveKey(line) ==
    LET t == Trim(line)
        sp == {i \in 1..Len(t) : SubSeq(t, i, i) = " "}
    IN  IF t = "" \/ SubSeq(t, 1, 1) = "#" \/ sp = {} THEN ""
        ELSE ToLowercase(SubSeq(t, 1, Min(sp) - 1))

\* the value of a line: the trimmed text after the first space
DirectiveValue(line) ==
    LET t == Trim(line)
        sp == {i \in 1..Len(t) : SubSeq(t, i, i) = " "}
    IN  IF sp = {} THEN "" ELSE Trim(SubSeq(t, Min(sp) + 1, Len(t)))

\* the lines of the root file
RootText == Lines(Content(fs, MainConfigPath(workdir)))

\* the file an Include line of the root file names
IncludeTarget(line) == ResolveIncludePath(DirectiveValue(line), workdir).path

\* line i is an Include line whose target exists
IsLiveInclude(lines, i) ==
    DirectiveKey(lines[i]) = "include" /\ PathExists(fs, IncludeTarget(lines[i]))

\* the registries of the included files of the startup runs, written out
ExpectedIncluded ==
    "/h/.ssh/w/config" :>
      << [name |-> "x", hostname |-> <<"h">>, user |-> <<>>, port |-> <<>>,
          identity_file |-> <<>>, other_options |-> <<>>, is_separator |-> FALSE,
          source_dir |-> <<"w">>],
         [name |-> "-- v --", hostname |-> <<>>, user |-> <<>>, port |-> <<>>,
          identity_file |-> <<>>, other_options |-> <<>>, is_separator |-> TRUE,
          source_dir |-> <<"v">>],
         [name |-> "y", hostname |-> <<>>, user |-> <<>>, port |-> <<22>>,
          identity_file |-> <<>>, other_options |-> <<>>, is_separator |-> FALSE,
          source_dir |-> <<"v">>],
         [name |-> "z", hostname |-> <<>>, user |-> <<"u">>, port |-> <<>>,
          identity_file |-> <<>>, other_options |-> <<>>, is_separator |-> FALSE,
          source_dir |-> <<"w">>] >>

\* number of registry entries line i accounts for
EntriesOf(lines, i) ==
    IF DirectiveKey(lines[i]) = "host" THEN 1
    ELSE IF IsLiveInclude(lines, i)
    THEN 1 + Len(ExpectedIncluded[IncludeTarget(lines[i])])
    ELSE 0

\* number of registry entries the lines before line i account for
RECURSIVE EntriesBefore(_, _)
EntriesBefore(lines, i) ==
    IF i <= 1 THEN 0 ELSE EntriesBefore(lines, i - 1) + EntriesOf(lines, i - 1)

\* the lines after the Host line i and before the next Host or Include line
Span(lines, i) ==
    {j \in (i + 1)..Len(lines) :
       \A k \in (i + 1)..j : DirectiveKey(lines[k]) \notin {"host", "include"}}

\* the value of the last directive key among the lines S
LastValue(lines, S, key) ==
    LET m == {j \in S : DirectiveKey(lines[j]) = key}
    IN  IF m = {} THEN None ELSE Some(DirectiveValue(lines[Max(m)]))

(***************************************************************************)
(* C9: a parse yields one non-separator entry per Host line, in the order  *)
(* of the Host lines, each with the hostname, user, port and identity file *)
(* set by the directives between its Host line and the next Host or        *)
(* Include line; blank lines and # lines change nothing.                   *)
(***************************************************************************)
C9_OneEntryPerHostLine ==
    exit = "running" =>
      LET lines == RootText
      IN  /\ Len(hosts) = EntriesBefore(lines, Len(lines) + 1)
          /\ \A i \in DOMAIN lines :
               DirectiveKey(lines[i]) = "host" =>
                 LET e == hosts[EntriesBefore(lines, i) + 1]
                     port == LastValue(lines, Span(lines, i), "port")
                 IN  /\ ~e.is_separator
                     /\ e.name = DirectiveValue(lines[i])
                     /\ e.hostname = LastValue(lines, Span(lines, i), "hostname")
                     /\ e.user = LastValue(lines, Span(lines, i), "user")
                     /\ e.identity_file = LastValue(lines, Span(lines, i), "identityfile")
                     /\ e.port = IF port = None THEN None ELSE ParseU16(port[1])

\* two Host lines with a hostname each and a blank line between them were
\* parsed into two entries
C9_Witness ==
    /\ exit = "running"
    /\ \E i, j, k \in DOMAIN RootText :
         /\ i < j /\ j < k
         /\ DirectiveKey(RootText[i]) = "host"
         /\ RootText[j] = ""
         /\ DirectiveKey(RootText[k]) = "host"
    /\ Len(hosts) = 2
    /\ hosts[1].name = "a" /\ hosts[1].hostname = Some("h")
    /\ hosts[2].name = "b" /\ hosts[2].hostname = Some("g")

(***************************************************************************)
(* C10: for an Include line whose target exists the registry holds, at the *)
(* position of the line among the entries of the including file, one       *)
(* separator named after and labelled with the parent directory of the     *)
(* target, then the entries of the recursive parse of the target in their  *)
(* order, each entry the target defines labelled with that directory, and  *)
(* only then the entries of the remaining lines.                           *)
(***************************************************************************)
C10_IncludeIsDepthFirst ==
    exit = "running" =>
      LET lines == RootText
      IN  \A i \in DOMAIN lines :
            IsLiveInclude(lines, i) =>
              LET at == EntriesBefore(lines, i)
                  target == IncludeTarget(lines[i])
                  dir == FileName(Parent(target)[1])[1]
                  inner == ExpectedIncluded[target]
              IN  /\ Len(hosts) = at + 1 + Len(inner)
                        + (EntriesBefore(lines, Len(lines) + 1) - EntriesBefore(lines, i + 1))
                  /\ hosts[at + 1].is_separator
                  /\ hosts[at + 1].source_dir = Some(dir)
                  /\ Contains(hosts[at + 1].name, dir)
                  /\ SubSeq(hosts, at + 2, at + 1 + Len(inner)) = inner
                  /\ \A j \in (i + 1)..Len(lines) :
                       DirectiveKey(lines[j]) = "host" =>
                         /\ EntriesBefore(lines, j) >= at + 1 + Len(inner)
                         /\ hosts[EntriesBefore(lines, j) + 1].name
                              = DirectiveValue(lines[j])
                         /\ ~hosts[EntriesBefore(lines, j) + 1].is_separator

\* an Include line with a Host line before it and a Host line after it was
\* loaded: the included entries lie between the two
C10_Witness ==
    /\ exit = "running"
    /\ \E i \in DOMAIN RootText :
         /\ IsLiveInclude(RootText, i)
         /\ EntriesBefore(RootText, i) >= 1
         /\ Len(hosts) > EntriesBefore(RootText, i) + 5
         /\ hosts[EntriesBefore(RootText, i) + 2].name = "x"

\* line i is an Include line that names no file and no directory of the disk
IsDeadInclude(lines, i) ==
    /\ DirectiveKey(lines[i]) = "include"
    /\ \A f \in DOMAIN fs :
         f # IncludeTarget(lines[i]) /\ ~StartsWith(f, IncludeTarget(lines[i]) \o "/")

\* the lines without line i
WithoutLine(lines, i) == SubSeq(lines, 1, i - 1) \o SubSeq(lines, i + 1, Len(lines))

\* the registry of the disk whose root file holds the given lines
RegistryOfLines(lines) ==
    LoadFromWorkdir(WriteFile(fs, MainConfigPath(workdir), JoinLines(lines)), workdir)

\* the last n entries of a registry
LastEntries(registry, n) == SubSeq(registry, Len(registry) - n + 1, Len(registry))

(***************************************************************************)
(* C11: an Include line whose resolved path does not exist yields no entry *)
(* and no separator and no error, and every Host block that starts after   *)
(* it is parsed as if the line were not there.                             *)
(***************************************************************************)
C11_MissingIncludeIsSkipped ==
    (exit # "starting" /\ MainConfigPath(workdir) \in DOMAIN fs) =>
      \A i \in DOMAIN RootText :
        IsDeadInclude(RootText, i) =>
          LET other == RegistryOfLines(WithoutLine(RootText, i))
              later == EntriesBefore(RootText, Len(RootText) + 1)
                         - EntriesBefore(RootText, i + 1)
          IN  /\ exit = "running"
              /\ other.err = "none"
              /\ Len(hosts) = Len(other.hosts)
              /\ LastEntries(hosts, later) = LastEntries(other.hosts, later)

\* a root file with a Host block before and a Host block after an Include
\* line of a missing file was loaded
C11_Witness ==
    /\ exit = "running"
    /\ \E i \in DOMAIN RootText :
         /\ IsDeadInclude(RootText, i)
         /\ \E j \in 1..(i - 1) : DirectiveKey(RootText[j]) = "host"
         /\ \E j \in (i + 1)..Len(RootText) : DirectiveKey(RootText[j]) = "host"
         /\ Len(hosts) >= 2

(***************************************************************************)
(* Startup on root files of one directive line between a fixed beginning   *)
(* and a fixed end; ops records the parts the root file was made of.       *)
(***************************************************************************)
\* the texts before the line: nothing, an open host, an open host with a port
LinePreludes == {"", "Host o\n", "Host o\n    Port 22\n"}

\* the texts after the line
LinePostludes == {"", "User u\nHost p\n    Port 7\n"}

\* the whitespace before the keyword
LineMargins == {"", "  ", "\t"}

LineKeywords == {"Host", "HOST", "Hostname", "User", "Port", "IdentityFile", "Include", "Foo"}

\* the whitespace between keyword and value
LineSeparators == {" ", "  ", "\t", " \t"}

LineValues ==
    {"", "a b", "22", "0", "x", "70000", "-1", "~", "~w/config", "~/.ssh/v/config",
     "w/config", "/h/.ssh/v/config", "missing", "e/config",
     "c/config", "d/config"}

\* the disk next to the root file: the included files, a folder whose name
\* begins with a tilde, a folder whose file defines no host, a file that
\* includes itself and two files that include each other
LineFiles ==
    IncludedFiles @@ ("/h/.ssh/~w/config" :> "Host t\n    User u\n")
    @@ ("/h/.ssh/e/config" :> "# no host\n")
    @@ ("/h/.ssh/c/config" :> "Host c\nInclude /h/.ssh/c/config\n")
    @@ ("/h/.ssh/d/config" :> "Include /h/.ssh/f/config\nHost d\n")
    @@ ("/h/.ssh/f/config" :> "Host f\nInclude ~/.ssh/d/config\n")

\* the root file made of the parts
LineText(parts) ==
    parts.prelude \o parts.margin \o parts.keyword \o parts.separator \o parts.value
    \o "\n" \o parts.postlude

LineInit ==
    /\ workdir = ParseRoot
    /\ \E pre \in LinePreludes, post \in LinePostludes, m \in LineMargins,
          kw \in LineKeywords, sep \in LineSeparators, v \in LineValues :
         LET parts == [kind |-> "line", prelude |-> pre, margin |-> m, keyword |-> kw,
                       separator |-> sep, value |-> v, postlude |-> post]
         IN  /\ ops = <<parts>>
             /\ fs = WriteFile(LineFiles, MainConfigPath(workdir), LineText(parts))
    /\ hosts = <<>>
    /\ selected = None
    /\ state = "List"
    /\ form = DefaultForm
    /\ editing_host_index = None
    /\ popup_message = ""
    /\ search_query = ""
    /\ filtered_hosts = <<>>
    /\ exit = "starting"

LineNext == Startup

SpecLine == LineInit /\ [][LineNext]_vars

\* the parts of the root file of the run
LineParts == ops[1]

\* the run loaded a root file made of parts
IsLineRun == exit # "starting" /\ ops # <<>> /\ ops[1].kind = "line"

\* keyword and value are separated by spaces only
SpaceSeparated == LineParts.separator \in {" ", "  "}

\* the values of the runs that are decimal numbers of 16 bits
NumberValues == {"22", "0"}

\* the entry named name, without its source label
PlainEntry(name, hostname, user, port) ==
    [name |-> name, hostname |-> hostname, user |-> user, port |-> port,
     identity_file |-> <<>>, other_options |-> <<>>, is_separator |-> FALSE]

\* an entry without its source label
Unlabelled(e) ==
    [name |-> e.name, hostname |-> e.hostname, user |-> e.user, port |-> e.port,
     identity_file |-> e.identity_file, other_options |-> e.other_options,
     is_separator |-> e.is_separator]

(***************************************************************************)
(* C12: a Port line under an open host whose value is no unsigned 16-bit   *)
(* integer leaves the port of that host unset and does not make the parse  *)
(* fail; the other fields of the host and the other entries are as the     *)
(* other lines set them.                                                   *)
(***************************************************************************)
C12_BadPortIsUnset ==
    (/\ IsLineRun
     /\ LineParts.keyword = "Port" /\ SpaceSeparated
     /\ LineParts.value \notin NumberValues \cup {""}
     /\ LineParts.prelude # "")
    => /\ exit = "running"
       /\ [k \in DOMAIN hosts |-> Unlabelled(hosts[k])]
            = IF LineParts.postlude = ""
              THEN <<PlainEntry("o", <<>>, <<>>, <<>>)>>
              ELSE <<PlainEntry("o", <<>>, <<"u">>, <<>>),
                     PlainEntry("p", <<>>, <<>>, <<7>>)>>

\* `Port 70000` after `Port 22` under host o, followed by another host, was
\* loaded
C12_Witness ==
    /\ IsLineRun /\ exit = "running"
    /\ LineParts.keyword = "Port" /\ LineParts.value = "70000" /\ SpaceSeparated
    /\ LineParts.prelude = "Host o\n    Port 22\n"
    /\ LineParts.postlude # ""
    /\ Len(hosts) = 2 /\ hosts[1].port = None /\ hosts[2].port = Some(7)

\* the file remove-by-name works on by the specification: the root file for
\* an entry without label, the file of folder L for an entry labelled L
LabelTarget(wd, host) ==
    IF host.source_dir = None THEN MainConfigPath(wd)
    ELSE FolderConfig(wd, host.source_dir[1])

(***************************************************************************)
(* C13: remove-by-name works on the root file exactly for an entry without *)
(* source label and on R/L/config for an entry labelled L, whatever L is:  *)
(* no other file changes.                                                  *)
(***************************************************************************)
C13_RemoveTargetsLabelFile ==
    \A i \in DOMAIN ops :
      (ops[i].kind = "remove" /\ ops[i].ok) =>
        \A p \in DOMAIN ops[i].before \cup DOMAIN ops[i].after :
          p # LabelTarget(workdir, ops[i].host[1]) =>
            /\ (p \in DOMAIN ops[i].before) = (p \in DOMAIN ops[i].after)
            /\ Content(ops[i].after, p) = Content(ops[i].before, p)

(***************************************************************************)
(* C14: every entry the root file defines itself has no source label,      *)
(* whatever the root directory is named; the entries an included file      *)
(* defines carry one.                                                      *)
(***************************************************************************)
C14_RootEntriesUnlabelled ==
    exit = "running" =>
      /\ \A i \in DOMAIN RootText :
           DirectiveKey(RootText[i]) = "host" =>
             hosts[EntriesBefore(RootText, i) + 1].source_dir = None
      /\ \A i \in DOMAIN RootText :
           IsLiveInclude(RootText, i) =>
             \A k \in 1..EntriesOf(RootText, i) :
               hosts[EntriesBefore(RootText, i) + k].source_dir # None

(***************************************************************************)
(* C15: an append into a folder file that does not exist or exists with    *)
(* zero bytes runs the registration: afterwards the root file contains the *)
(* Include line of the folder file.                                        *)
(***************************************************************************)
C15_EmptyFileIsNew ==
    \A i \in DOMAIN ops :
      (/\ ops[i].kind = "save" /\ ops[i].ok
       /\ Content(ops[i].before, SaveTarget(workdir, ops[i].form)) = "")
      => /\ MainConfigPath(workdir) \in DOMAIN ops[i].after
         /\ Contains(ops[i].after[MainConfigPath(workdir)],
                     "Include " \o SaveTarget(workdir, ops[i].form))

\* an append that ran the registration on a root file that existed
IsRegistration(o) ==
    IsAppendIntoNew(o) /\ MainConfigPath(workdir) \in DOMAIN o.before

(***************************************************************************)
(* C16 (as stated): a registration on an existing root file that does not  *)
(* contain the include line makes the root file the include line, one      *)
(* blank line, then the previous content byte for byte; a root file that   *)
(* contains the include line is left unchanged.                            *)
(***************************************************************************)
C16_RegistrationPrependsWithBlank ==
    \A i \in DOMAIN ops :
      IsRegistration(ops[i]) =>
        LET before == ops[i].before[MainConfigPath(workdir)]
            include_line == "Include " \o SaveTarget(workdir, ops[i].form)
        IN  Content(ops[i].after, MainConfigPath(workdir))
              = IF Contains(before, include_line) THEN before
                ELSE include_line \o "\n" \o "\n" \o before

(***************************************************************************)
(* C16 (amended): a registration on an existing root file that does not    *)
(* contain the include line makes the root file the include line followed, *)
(* when the previous content is not empty, by one blank line and the       *)
(* previous content byte for byte (the include line alone for an empty     *)
(* root file); a root file that contains the include line is left          *)
(* unchanged.                                                              *)
(***************************************************************************)
C16_RegistrationPrepends ==
    \A i \in DOMAIN ops :
      IsRegistration(ops[i]) =>
        LET before == ops[i].before[MainConfigPath(workdir)]
            include_line == "Include " \o SaveTarget(workdir, ops[i].form)
        IN  /\ MainConfigPath(workdir) \in DOMAIN ops[i].after
            /\ ops[i].after[MainConfigPath(workdir)]
                 = IF Contains(before, include_line) THEN before
                   ELSE IF before = "" THEN include_line \o "\n"
                   ELSE include_line \o "\n" \o "\n" \o before

\* a registration put the include line and a blank line before the blocks
\* of a root file
C16_Witness ==
    \E i \in DOMAIN ops :
      /\ IsRegistration(ops[i])
      /\ ~Contains(ops[i].before[MainConfigPath(workdir)], "Include ")
      /\ Contains(ops[i].before[MainConfigPath(workdir)], "Host a")
      /\ Contains(ops[i].after[MainConfigPath(workdir)], "config\n\nHost a\n")

(***************************************************************************)
(* C17: an append keeps the bytes of the target file as a prefix and       *)
(* writes after them one blank line exactly when the file was not empty,   *)
(* then the Host, Hostname and User lines, then the Port, IdentityFile and *)
(* LocalForward lines, in that order, of the optional inputs that are not  *)
(* empty.                                                                  *)
(***************************************************************************)
C17_AppendKeepsPrefix ==
    \A i \in DOMAIN ops :
      (ops[i].kind = "save" /\ ops[i].ok) =>
        LET t == SaveTarget(workdir, ops[i].form)
            before == Content(ops[i].before, t)
        IN  /\ t \in DOMAIN ops[i].after
            /\ ops[i].after[t]
                 = before \o (IF before = "" THEN "" ELSE "\n") \o SpecBlock(ops[i].form)

\* a block with a Port and a LocalForward line and without IdentityFile
\* line was appended after a blank line to a file that held a block
C17_Witness ==
    \E i \in DOMAIN ops :
      /\ ops[i].kind = "save" /\ ops[i].ok
      /\ ops[i].form.port # "" /\ ops[i].form.identity_file = ""
      /\ ops[i].form.local_forward # ""
      /\ Contains(Content(ops[i].before, SaveTarget(workdir, ops[i].form)), "Host ")
      /\ Contains(ops[i].after[SaveTarget(workdir, ops[i].form)],
                  "\n\nHost " \o ops[i].form.host \o "\n")

\* the outcome of a startup that loads the given root text
OutcomeOfText(text) ==
    LET r == LoadFromWorkdir(WriteFile(fs, MainConfigPath(workdir), text), workdir)
    IN  [exit |-> IF r.err = "none" THEN "running"
                  ELSE IF r.err = "io" THEN "error" ELSE r.err,
         hosts |-> r.hosts]

(***************************************************************************)
(* C18: a line whose keyword is followed by a run of spaces or tabs and a  *)
(* value is parsed as the directive of that keyword, matched without       *)
(* regard to case, with the trimmed rest of the line as value: the same as *)
(* with one space between keyword and value.                               *)
(***************************************************************************)
C18_AnyWhitespaceSeparates ==
    (IsLineRun /\ LineParts.value # "") =>
      /\ [exit |-> exit, hosts |-> hosts]
           = OutcomeOfText(LineText([LineParts EXCEPT !.separator = " "]))
      /\ ToLowercase(LineParts.keyword) = "host" =>
           \E k \in DOMAIN hosts : hosts[k].name = LineParts.value

\* the path the three rules of the specification give an include argument
RulePath(argument, base_dir) ==
    IF StartsWith(argument, "~/")
    THEN PathJoin(HomeDir, SubSeq(argument, 3, Len(argument)))
    ELSE IF StartsWith(argument, "/") THEN argument
    ELSE PathJoin(base_dir, argument)

(***************************************************************************)
(* C19: the resolution of an include argument never fails for a non-empty  *)
(* argument and yields the home directory joined with the rest of an       *)
(* argument that begins with `~/`, else the argument itself when it begins *)
(* with `/`, else (also for an argument that begins with `~` but not with  *)
(* `~/`) the base directory joined with the argument: the load has the     *)
(* outcome of the load with that path written out.                         *)
(***************************************************************************)
C19_IncludeResolvesByThreeRules ==
    (/\ IsLineRun
     /\ LineParts.keyword = "Include" /\ SpaceSeparated
     /\ LineParts.value # "")
    => /\ exit # "panic"
       /\ [exit |-> exit, hosts |-> hosts]
            = OutcomeOfText(LineText([LineParts EXCEPT
                                        !.value = RulePath(LineParts.value, workdir)]))

(***************************************************************************)
(* C20: in every registry a parse produces, every entry that is no         *)
(* separator has a non-empty name, and every separator has hostname, user, *)
(* port and identity file unset and an empty mapping of other options.     *)
(***************************************************************************)
C20_EntriesWellFormed ==
    (IsLineRun /\ exit = "running") =>
      \A k \in DOMAIN hosts :
        IF hosts[k].is_separator
        THEN /\ hosts[k].hostname = None /\ hosts[k].user = None
             /\ hosts[k].port = None /\ hosts[k].identity_file = None
             /\ DOMAIN hosts[k].other_options = {}
        ELSE hosts[k].name # ""

\* a root file with directives on both sides of an Include line was loaded
\* into a registry with separators and entries of three files
C20_Witness ==
    /\ IsLineRun /\ exit = "running"
    /\ LineParts.keyword = "Include" /\ LineParts.value = "w/config"
    /\ LineParts.prelude # "" /\ LineParts.postlude # ""
    /\ \E k \in DOMAIN hosts : hosts[k].is_separator
    /\ Cardinality({k \in DOMAIN hosts : ~hosts[k].is_separator}) >= 5

(***************************************************************************)
(* C21: for every value of a Port directive the port of the entry is unset *)
(* or an integer from 1 to 65535.                                          *)
(***************************************************************************)
C21_PortInRange ==
    (IsLineRun /\ exit = "running") =>
      \A k \in DOMAIN hosts :
        hosts[k].port = None \/ (hosts[k].port[1] >= 1 /\ hosts[k].port[1] <= 65535)

\* the index (from 0) of the first entry that is no separator, 0 without one
FirstRealIndex(registry) ==
    IF \A k \in DOMAIN registry : registry[k].is_separator THEN 0
    ELSE (CHOOSE k \in DOMAIN registry :
            /\ ~registry[k].is_separator
            /\ \A j \in 1..(k - 1) : registry[j].is_separator) - 1

(***************************************************************************)
(* C22 (as stated): the initial selection is the index of the first entry  *)
(* that is no separator, and index 0 when the registry is empty or holds   *)
(* separators only.                                                        *)
(***************************************************************************)
C22_InitialSelectionIsFirstHost ==
    (IsLineRun /\ exit = "running") => selected = Some(FirstRealIndex(hosts))

(***************************************************************************)
(* C22 (amended): the initial selection is the index of the first entry    *)
(* that is no separator, index 0 when the registry holds separators only,  *)
(* and no selection when the registry is empty.                            *)
(***************************************************************************)
C22_InitialSelection ==
    (IsLineRun /\ exit = "running") =>
      selected = IF hosts = <<>> THEN None ELSE Some(FirstRealIndex(hosts))

\* a registry that begins with a separator was loaded: the selection is
\* the entry after it
C22_Witness ==
    /\ IsLineRun /\ exit = "running"
    /\ Len(hosts) >= 2 /\ hosts[1].is_separator /\ ~hosts[2].is_separator
    /\ selected = Some(1)

\* a registry of one separator was loaded
C22_WitnessSeparatorsOnly ==
    /\ IsLineRun /\ exit = "running"
    /\ Len(hosts) = 1 /\ hosts[1].is_separator /\ selected = Some(0)

\* the files the Include lines of file p name, among the files of the disk
IncludedBy(files, p) ==
    {q \in DOMAIN files :
       \E i \in DOMAIN Lines(files[p]) :
         /\ DirectiveKey(Lines(files[p])[i]) = "include"
         /\ RulePath(DirectiveValue(Lines(files[p])[i]), Parent(p)[1]) = q}

\* the files reached from the files S along at most n Include lines
RECURSIVE ReachedFrom(_, _, _)
ReachedFrom(files, S, n) ==
    IF n = 0 THEN S
    ELSE ReachedFrom(files, S \cup UNION {IncludedBy(files, p) : p \in S}, n - 1)

\* a load of the root file comes to a file that includes itself, directly
\* or through other files
RootReachesCycle ==
    \E p \in ReachedFrom(fs, {MainConfigPath(workdir)}, Cardinality(DOMAIN fs)) :
      p \in ReachedFrom(fs, IncludedBy(fs, p), Cardinality(DOMAIN fs))

\* the line of the run is an Include line whose argument is the bare tilde
IsBareTildeInclude == LineParts.keyword = "Include" /\ LineParts.value = "~"

(***************************************************************************)
(* C23: a load ends with a registry when the include graph of the root     *)
(* file has no cycle; when a file reached from the root file includes      *)
(* itself, directly or through other files, the parse recurses until the   *)
(* stack is exhausted and no registry is returned.                         *)
(***************************************************************************)
C23_LoadEndsUnlessCycle ==
    (IsLineRun /\ SpaceSeparated /\ ~IsBareTildeInclude) =>
      IF RootReachesCycle THEN exit = "overflow" /\ hosts = <<>>
      ELSE exit = "running"

\* a root file that includes one of two files that include each other was
\* loaded
C23_Witness ==
    /\ IsLineRun /\ SpaceSeparated
    /\ LineParts.keyword = "Include" /\ LineParts.value = "d/config"
    /\ RootReachesCycle
    /\ exit = "overflow"

\* a root file that includes a file with a nested include was loaded
C23_WitnessAcyclic ==
    /\ IsLineRun /\ SpaceSeparated
    /\ LineParts.keyword = "Include" /\ LineParts.value = "w/config"
    /\ ~RootReachesCycle
    /\ exit = "running"

\* the keywords of the runs that set a field of the open host
FieldKeywords == {"Hostname", "User", "Port", "IdentityFile", "Foo"}

\* the entries of the registry without their source labels
UnlabelledHosts == [i \in DOMAIN hosts |-> Unlabelled(hosts[i])]

\* the entry the lines before the line of the run describe
PreludeEntry ==
    PlainEntry("o", None, None,
               IF LineParts.prelude = "Host o\n" THEN None ELSE Some(22))

\* the registry the lines after the line of the run describe when no host is
\* open at their start
PostludeEntries ==
    IF LineParts.postlude = "" THEN <<>> ELSE <<PlainEntry("p", None, None, Some(7))>>

(***************************************************************************)
(* C24: a field directive before the first Host line of the root file      *)
(* changes no entry and raises no error: the registry is the one of the    *)
(* lines after it.  An Include line closes the open host whether or not    *)
(* its target exists: the host before it is in the registry once, without  *)
(* the field a directive between the Include line and the next Host line   *)
(* names, and the load does not fail.                                      *)
(***************************************************************************)
C24_IncludeClosesOpenHost ==
    (IsLineRun /\ SpaceSeparated /\ LineParts.value # "") =>
      /\ (LineParts.keyword \in FieldKeywords /\ LineParts.prelude = "") =>
           exit = "running" /\ UnlabelledHosts = PostludeEntries
      /\ (LineParts.keyword = "Include" /\ LineParts.prelude # ""
            /\ ~IsBareTildeInclude /\ ~RootReachesCycle) =>
           /\ exit = "running"
           /\ UnlabelledHosts[1] = PreludeEntry
           /\ Cardinality({i \in DOMAIN hosts : hosts[i].name = "o"}) = 1
           /\ LastEntries(UnlabelledHosts, Len(PostludeEntries)) = PostludeEntries

\* an Include line with a missing target, after an open host and before a
\* User line, was loaded
C24_Witness ==
    /\ IsLineRun /\ SpaceSeparated
    /\ LineParts.keyword = "Include" /\ LineParts.value = "missing"
    /\ LineParts.prelude = "Host o\n    Port 22\n" /\ LineParts.postlude # ""
    /\ exit = "running"
    /\ Len(hosts) = 2 /\ hosts[1].user = None

\* an Include line with an existing target, after an open host and before a
\* User line, was loaded
C24_WitnessLive ==
    /\ IsLineRun /\ SpaceSeparated
    /\ LineParts.keyword = "Include" /\ LineParts.value = "w/config"
    /\ LineParts.prelude # "" /\ LineParts.postlude # ""
    /\ exit = "running" /\ Len(hosts) > 2 /\ hosts[1].user = None

\* a User line before the first Host line was loaded
C24_WitnessOrphan ==
    /\ IsLineRun /\ SpaceSeparated
    /\ LineParts.keyword = "User" /\ LineParts.value = "x" /\ LineParts.prelude = ""
    /\ exit = "running" /\ Len(hosts) = Len(PostludeEntries)

\* the paths whose presence or content one engine call changed
ChangedPaths(op) ==
    {p \in DOMAIN op.before \cup DOMAIN op.after :
       \/ (p \in DOMAIN op.before) # (p \in DOMAIN op.after)
       \/ Content(op.after, p) # Content(op.before, p)}

(***************************************************************************)
(* C25: remove-by-name changes at most one file, the file of the entry:    *)
(* for an entry labelled with a folder the root file and the files of the  *)
(* other folders keep their bytes, and when the file of the entry does not *)
(* exist no file is created or changed.                                    *)
(***************************************************************************)
C25_RemoveWritesOnlyTarget ==
    \A i \in DOMAIN ops :
      ops[i].kind = "remove" =>
        LET h == ops[i].host[1]
            target == LabelTarget(workdir, h)
        IN  /\ Cardinality(ChangedPaths(ops[i])) <= 1
            /\ IsSome(h.source_dir) =>
                 /\ MainConfigPath(workdir) \notin ChangedPaths(ops[i])
                 /\ ChangedPaths(ops[i]) \subseteq {target}
            /\ target \notin DOMAIN ops[i].before => ops[i].after = ops[i].before

\* the file the code rewrites holds a line whose trimmed form is `Host N`
HasHostLine(files, path, name) ==
    /\ path \in DOMAIN files
    /\ \E j \in DOMAIN Lines(files[path]) : Trim(Lines(files[path])[j]) = "Host " \o name

(***************************************************************************)
(* C26: after a successful remove-by-name of N the rewritten file has no   *)
(* line whose trimmed form is `Host N`, whatever the file held, several    *)
(* blocks named N included.                                                *)
(***************************************************************************)
C26_NoHostLineLeft ==
    \A i \in DOMAIN ops :
      (ops[i].kind = "remove" /\ ops[i].ok) =>
        ~HasHostLine(ops[i].after, RemoveTarget(workdir, ops[i].host[1]),
                     ops[i].host[1].name)

\* the lines of a text the parser takes as opening a host named name
HostLinesOf(text, name) ==
    {j \in DOMAIN Lines(text) :
       /\ DirectiveKey(StripCr(Lines(text)[j])) = "host"
       /\ DirectiveValue(StripCr(Lines(text)[j])) = name}

\* the names of the entries a fresh parse of one file returns
ParsedNames(files, path) ==
    {LoadFile(files, path, 1).hosts[j].name : j \in DOMAIN LoadFile(files, path, 1).hosts}

(***************************************************************************)
(* C27: when the file of an entry named N holds one line the parser takes  *)
(* as opening host N, in whatever letter case the keyword is written, a    *)
(* successful remove-by-name of that entry deletes the block: a fresh      *)
(* parse of the file has no entry named N.                                 *)
(***************************************************************************)
C27_RemoverMatchesParser ==
    \A i \in DOMAIN ops :
      LET h == ops[i].host[1]
          target == RemoveTarget(workdir, h)
      IN  (/\ ops[i].kind = "remove" /\ ops[i].ok
           /\ target \in DOMAIN ops[i].before
           /\ Cardinality(HostLinesOf(ops[i].before[target], h.name)) = 1) =>
            h.name \notin ParsedNames(ops[i].after, target)

\* a registry holds the host a form describes, labelled with the form's folder
HoldsFormHost(registry, f) ==
    \E j \in DOMAIN registry :
      /\ ~registry[j].is_separator
      /\ registry[j].name = f.host
      /\ registry[j].source_dir = Some(f.folder)
      /\ registry[j].hostname = Some(f.hostname)
      /\ registry[j].user = Some(f.user)

(***************************************************************************)
(* C28: after a successful append of alias A into folder F, whatever the   *)
(* files were before, a fresh load of the root succeeds and its registry   *)
(* holds a non-separator entry named A, labelled F, with the hostname and  *)
(* the user that were given.                                               *)
(***************************************************************************)
C28_AppendedHostIsLoaded ==
    \A i \in DOMAIN ops :
      (ops[i].kind = "save" /\ ops[i].ok) =>
        /\ LoadFromWorkdir(ops[i].after, workdir).err = "none"
        /\ HoldsFormHost(LoadFromWorkdir(ops[i].after, workdir).hosts, ops[i].form)

\* an update whose form is the one load_host_for_editing built from the
\* edited entry: no field was changed
IsUnchangedEdit(op) ==
    op.kind = "update" /\ op.ok /\ op.host # None /\ op.form = FormOfHost(op.host[1])

(***************************************************************************)
(* C29: a confirmed edit in which no form field was changed keeps the      *)
(* parsed attributes of the host: a fresh load succeeds and returns an     *)
(* entry with the same name, hostname, user, port, identity file and       *)
(* other options as the edited entry had.                                  *)
(***************************************************************************)
C29_UnchangedEditKeepsAttributes ==
    \A i \in DOMAIN ops :
      IsUnchangedEdit(ops[i]) =>
        LET loaded == LoadFromWorkdir(ops[i].after, workdir)
        IN  /\ loaded.err = "none"
            /\ \E j \in DOMAIN loaded.hosts :
                 Unlabelled(loaded.hosts[j]) = Unlabelled(ops[i].host[1])

\* the registry has an entry that is no separator
HasRealEntry == \E i \in DOMAIN hosts : ~hosts[i].is_separator

\* the selection is an index of the registry that holds no separator
SelectionOnRealEntry ==
    /\ selected # None
    /\ selected[1] >= 0 /\ selected[1] < Len(hosts)
    /\ ~hosts[selected[1] + 1].is_separator

(***************************************************************************)
(* C30: when the registry holds a non-separator entry, the selection is    *)
(* within the bounds of the registry and on a non-separator entry after    *)
(* every sequence of Up and Down keys in the list and of the keys of the   *)
(* search (typing, navigation, confirmation, Esc), and no key hangs or     *)
(* panics.                                                                 *)
(***************************************************************************)
C30_SelectionOnRealEntry ==
    HasRealEntry => exit = "running" /\ SelectionOnRealEntry

\* a search with two results was confirmed on a registry with separators
\* and left the selection on an entry that is not the first of the registry
C30_Witness ==
    /\ HasRealEntry
    /\ \E i \in DOMAIN hosts : hosts[i].is_separator
    /\ state = "List" /\ Len(filtered_hosts) = 2
    /\ selected = Some(filtered_hosts[1])
    /\ selected # InitialSelection(hosts)

\* Down wrapped from the last entry over a leading separator
C30_WitnessWrap ==
    /\ HasRealEntry /\ hosts[1].is_separator /\ hosts[Len(hosts)].is_separator = FALSE
    /\ state = "List" /\ filtered_hosts = <<1>> /\ selected = Some(2)

(***************************************************************************)
(* C31: handling a Down or an Up key in the list ends with a selection and *)
(* without a crash, whatever the registry is, an empty registry and a      *)
(* registry of separators only included.                                   *)
(***************************************************************************)
C31_UpDownTerminates ==
    [][(ListKeyDown \/ ListKeyUp) => (exit' = "running" /\ selected' # None)]_vars

\* folder, alias, hostname and user of a form are all given
FieldsGiven(f) == f.folder # "" /\ f.host # "" /\ f.hostname # "" /\ f.user # ""

\* the application asks for the confirmation of an add or of an edit
Confirming == state \in {"Confirm", "ConfirmEdit"}

(***************************************************************************)
(* C32: a host block is written only for a form whose folder, alias,       *)
(* hostname and user are all non-empty.  The confirmation states are       *)
(* entered only from the form by a key that leaves the form as it is, the  *)
(* form in them has the four fields given and does not change, and the     *)
(* state is ConfirmEdit exactly when an entry is being edited and Confirm  *)
(* exactly when none is.                                                   *)
(***************************************************************************)
C32_OnlyValidFormsAreWritten ==
    /\ [](/\ \A i \in DOMAIN ops :
               ops[i].kind \in {"save", "update"} => FieldsGiven(ops[i].form)
          /\ Confirming => FieldsGiven(form)
          /\ state = "ConfirmEdit" => editing_host_index # None
          /\ state = "Confirm" => editing_host_index = None)
    /\ [][/\ Confirming => form' = form
          /\ (~Confirming /\ Confirming') =>
               /\ state \in {"Form", "Edit"}
               /\ form' = form /\ FieldsGiven(form)
               /\ state' = IF editing_host_index # None THEN "ConfirmEdit" ELSE "Confirm"
          /\ fs' # fs => Confirming /\ FieldsGiven(form)]_vars

\* a confirmed edit has written its block and the list is shown again
C32_Witness ==
    /\ exit = "running" /\ state = "List"
    /\ Len(ops) = 1 /\ ops[1].kind = "update" /\ ops[1].ok
    /\ ops[1].after # ops[1].before
    /\ FieldsGiven(ops[1].form)

\* a confirmed add has written its block and the list is shown again
C32_WitnessAdd ==
    /\ exit = "running" /\ state = "List"
    /\ Len(ops) = 1 /\ ops[1].kind = "save" /\ ops[1].ok
    /\ ops[1].after # ops[1].before

====
